---- MODULE Spec2Model ----
(***************************************************************************)
(* gitlab-mirror: the synchronisation engine.                              *)
(*   sync.py            ProjectSynchronizer (decision engine, worker pool, *)
(*                      collector, summary)                                *)
(*   git_operations.py  GitOperations (local inspector, staleness policy,  *)
(*                      clone / update with retry)                         *)
(* One state is one moment of a sequence of sync runs over a local mirror  *)
(* tree: the configuration, the on-disk state of every project path, the   *)
(* position of every submitted project in the worker pool, and the list    *)
(* of results collected by the main thread.                                *)
(***************************************************************************)
EXTENDS Integers, Sequences, FiniteSets, TLC

\* ---------------------------------------------------------------- bounds
NumProjects == 2
MaxWorkers == 2
MaxRetries == 1
MaxRuns == 2
NumWriters == 2
MaxIdentifiers == 3
MaxBackoffRetries == 3

VARIABLES
    config,        \* Config: the options the engine reads
    projects,      \* ids of the discovered projects, then of the included ones
    fs,            \* per project: what is at root_dir / path_with_namespace
    root_exists,   \* the root mirror directory exists
    group_exists,  \* the namespace directory root_dir / "g" exists
    run,           \* number of the current sync run
    phase,         \* "init" | "pool" | "done" | "fatal" | "exited"
    pc,            \* per project: position of its future in the pool
    attempt,       \* per project: attempts made by the current retry loop
    last_error,    \* per project: last_error of the current retry loop
    future,        \* per project: outcome of sync_project (result or exception)
    policy,        \* per project: the UpdateStatus of check_if_behind_remote
    calls,         \* per project: transport / filesystem calls issued this run
    seen,          \* per project: the local state sync_project inspected
    results,       \* the list of SyncResult built by _sync_projects_parallel
    summary,       \* the SyncSummary returned by sync_groups
    prev,          \* per project: statuses reported by the previous run
    git_available, \* the git executable answers (check_git_available)
    gitlab,        \* what the command meets when it configures and calls GitLab
    excluded_results, \* the excluded results built by the filtering loop
    worker,        \* per project: the pool thread that ran sync_project (0: none)
    touched,       \* per project: the filesystem paths its worker accessed
    interrupted,   \* KeyboardInterrupt was raised in the main thread
    exit_code,     \* the exit status of the sync command (NoExit while running)
    git_credentials,    \* the lines of ~/.git-credentials
    credentials_before, \* its lines before any worker stored a credential
    writers,       \* per worker: its call of _store_credential
    discovery      \* the call of discover_all_projects

vars == <<config, projects, fs, root_exists, group_exists, run, phase, pc,
          attempt, last_error, future, policy, calls, seen, results,
          summary, prev, git_available, gitlab, excluded_results, worker, touched,
          interrupted, exit_code, git_credentials, credentials_before,
          writers, discovery>>

\* ------------------------------------------------------ models.py values
TO_CLONE == "to_clone"
CLONED == "cloned"
UPDATED == "updated"
ALREADY_UP_TO_DATE == "already_up_to_date"
IGNORED == "ignored"
EXCLUDED == "excluded"
ERROR == "error"

ProjectStatus == {TO_CLONE, CLONED, UPDATED, ALREADY_UP_TO_DATE, IGNORED,
                  EXCLUDED, ERROR}

\* GitLabProject: the URLs are sequences of tokens, so that the URL
\* normalisation works on their structure.
PathName(p) == <<"p1", "p2", "p3", "p4", "p5">>[p]

http_url_to_repo(p) == <<"https", "://", "H", "/", "g", "/", PathName(p), ".git">>

ssh_url_to_repo(p) == <<"git@h:", "g", "/", PathName(p), ".git">>

\* The same http URL with credentials embedded (legacy clones).
TokenUrl(p) == <<"https", "://", "oauth2:T", "@", "h", "/", "g", "/", PathName(p), ".git">>

\* The URL of a repository that is not one of the mirrored projects.
ForeignUrl == <<"https", "://", "h", "/", "g", "/", "elsewhere", ".git">>

NoUrl == <<>>

\* The commits of the remote default branch, a linear history 1 < 2 < ...
Commits == {1, 2}

RemoteHead == CHOOSE c \in Commits : \A d \in Commits : d <= c

\* ------------------------------------------------- the local mirror tree
\* What is at one project's target path.  kind: "absent" (nothing there),
\* "plain" (a directory that is not a repository), "repo" (a valid
\* repository), "unreadable" (the path or its repository metadata cannot be
\* read: the inspection raises).  dirty is the outcome of
\* repo.is_dirty(untracked_files=True): "clean", "dirty", or "error" when the
\* check itself raises.  fetch_head is .git/FETCH_HEAD and its age in hours.
NoFetchHead == [exists |-> FALSE, age |-> 0]

LocalState(kind, origin, dirty, detached, fetch_head, head) ==
    [kind |-> kind, origin |-> origin, dirty |-> dirty, detached |-> detached,
     fetch_head |-> fetch_head, head |-> head, tracking |-> head,
     credential_helper |-> FALSE]

Absent == LocalState("absent", NoUrl, "clean", FALSE, NoFetchHead, 0)

PlainDir == LocalState("plain", NoUrl, "clean", FALSE, NoFetchHead, 0)

Unreadable == LocalState("unreadable", NoUrl, "clean", FALSE, NoFetchHead, 0)

\* ------------------------------------------- git_operations.py inspector
Lower(tok) == CASE tok = "H" -> "h" [] tok = "G" -> "g" [] OTHER -> tok

ContainsAt(tok) == tok \in {"@", "git@h:"}

\* re.sub(r"://[^@]+@", "://", url): the text between "://" and the first
\* "@" after it is removed together with that "@".
StripCredentials(url) ==
    LET starts == {i \in 1..Len(url) : url[i] = "://"} IN
    IF starts = {} THEN url
    ELSE LET i == CHOOSE a \in starts : \A b \in starts : a <= b
             ats == {j \in (i + 1)..Len(url) : ContainsAt(url[j])}
         IN IF ats = {} THEN url
            ELSE LET j == CHOOSE a \in ats : \A b \in ats : a <= b IN
                 IF j > i + 1 /\ url[j] = "@"
                 THEN SubSeq(url, 1, i) \o SubSeq(url, j + 1, Len(url))
                 ELSE url

RECURSIVE RStripSlash(_)
RStripSlash(url) ==
    IF Len(url) > 0 /\ url[Len(url)] = "/"
    THEN RStripSlash(SubSeq(url, 1, Len(url) - 1))
    ELSE url

StripGitSuffix(url) ==
    IF Len(url) > 0 /\ url[Len(url)] = ".git"
    THEN SubSeq(url, 1, Len(url) - 1)
    ELSE url

\* _normalize_url without the removal of the credentials.
_normalize_url_keep_credentials(url) ==
    LET normalized == StripGitSuffix(RStripSlash(url)) IN
    [i \in 1..Len(normalized) |-> Lower(normalized[i])]

_normalize_url(url) ==
    LET normalized == StripGitSuffix(RStripSlash(StripCredentials(url))) IN
    [i \in 1..Len(normalized) |-> Lower(normalized[i])]

is_git_repository(local) == local.kind = "repo"

get_repository_remote_url(local) ==
    IF local.kind = "repo" THEN local.origin ELSE NoUrl

matches_project(local, p) ==
    /\ is_git_repository(local)
    /\ get_repository_remote_url(local) # NoUrl
    /\ _normalize_url(get_repository_remote_url(local))
         \in {_normalize_url(http_url_to_repo(p)), _normalize_url(ssh_url_to_repo(p))}

get_last_fetch_time(local) == local.fetch_head

\* A float: inf, or a finite number of hours.
hours_since_last_fetch(local) ==
    IF ~get_last_fetch_time(local).exists
    THEN [inf |-> TRUE, val |-> 0]
    ELSE [inf |-> FALSE, val |-> get_last_fetch_time(local).age]

FloatLess(h, threshold) == ~h.inf /\ h.val < threshold

\* The transport's fetch: the remote-tracking ref moves to the remote head
\* and FETCH_HEAD is rewritten now.
FetchEffect(local) ==
    [local EXCEPT !.tracking = RemoteHead,
                  !.fetch_head = [exists |-> TRUE, age |-> 0]]

\* The transport's pull on the current branch: a fetch, then the local
\* branch is advanced to the remote-tracking ref.
PullEffect(local) == [FetchEffect(local) EXCEPT !.head = RemoteHead]

\* _count_commits_behind.  probe is what the network does during the call:
\* "ok", "fetch_failed" (origin.fetch raises) or "count_failed" (the fetch
\* worked and the commit comparison raises).  Every exception yields 0.
_count_commits_behind(local, probe) ==
    IF probe = "fetch_failed"
    THEN [behind |-> 0, repo |-> local]
    ELSE LET fetched == FetchEffect(local) IN
         IF probe = "count_failed" THEN [behind |-> 0, repo |-> fetched]
         ELSE IF fetched.head = fetched.tracking THEN [behind |-> 0, repo |-> fetched]
         ELSE [behind |-> IF fetched.tracking > fetched.head
                          THEN fetched.tracking - fetched.head ELSE 0,
               repo |-> fetched]

\* check_if_behind_remote: the UpdateStatus, the repository as the
\* evaluation leaves it, and the number of fetch calls it issued.
UpdateStatus(needs_update, reason, commits_behind, repo, fetches) ==
    [needs_update |-> needs_update, reason |-> reason,
     commits_behind |-> commits_behind, repo |-> repo, fetches |-> fetches]

\* check_if_behind_remote with the dirty check moved in front of the
\* recent-fetch rule.
check_if_behind_remote_dirty_first(local, cfg, probe) ==
    IF ~is_git_repository(local)
    THEN UpdateStatus(TRUE, "check_failed", 0, local, 0)
    ELSE IF local.dirty = "error"
    THEN UpdateStatus(TRUE, "check_failed", 0, local, 0)
    ELSE IF local.dirty = "dirty"
    THEN UpdateStatus(FALSE, "local_modifications", 0, local, 0)
    ELSE IF cfg.skip_recent_hours > 0
            /\ FloatLess(hours_since_last_fetch(local), cfg.skip_recent_hours)
    THEN UpdateStatus(FALSE, "fetch_recent", 0, local, 0)
    ELSE IF local.detached
    THEN UpdateStatus(TRUE, "detached_head", 0, local, 0)
    ELSE IF cfg.smart_update
    THEN LET c == _count_commits_behind(local, probe) IN
         IF c.behind = 0
         THEN UpdateStatus(FALSE, "up_to_date", 0, c.repo, 1)
         ELSE UpdateStatus(TRUE, "commits_behind", c.behind, c.repo, 1)
    ELSE UpdateStatus(TRUE, "scheduled", 0, local, 0)

\* check_if_behind_remote without the local-modifications rule.
check_if_behind_remote_no_dirty_rule(local, cfg, probe) ==
    IF ~is_git_repository(local)
    THEN UpdateStatus(TRUE, "check_failed", 0, local, 0)
    ELSE IF cfg.skip_recent_hours > 0
            /\ FloatLess(hours_since_last_fetch(local), cfg.skip_recent_hours)
    THEN UpdateStatus(FALSE, "fetch_recent", 0, local, 0)
    ELSE IF local.dirty = "error"
    THEN UpdateStatus(TRUE, "check_failed", 0, local, 0)
    ELSE IF local.detached
    THEN UpdateStatus(TRUE, "detached_head", 0, local, 0)
    ELSE IF cfg.smart_update
    THEN LET c == _count_commits_behind(local, probe) IN
         IF c.behind = 0
         THEN UpdateStatus(FALSE, "up_to_date", 0, c.repo, 1)
         ELSE UpdateStatus(TRUE, "commits_behind", c.behind, c.repo, 1)
    ELSE UpdateStatus(TRUE, "scheduled", 0, local, 0)

check_if_behind_remote(local, cfg, probe) ==
    IF ~is_git_repository(local)
    THEN UpdateStatus(TRUE, "check_failed", 0, local, 0)
    ELSE IF cfg.skip_recent_hours > 0
            /\ FloatLess(hours_since_last_fetch(local), cfg.skip_recent_hours)
    THEN UpdateStatus(FALSE, "fetch_recent", 0, local, 0)
    ELSE IF local.dirty = "error"
    THEN UpdateStatus(TRUE, "check_failed", 0, local, 0)
    ELSE IF local.dirty = "dirty"
    THEN UpdateStatus(FALSE, "local_modifications", 0, local, 0)
    ELSE IF local.detached
    THEN UpdateStatus(TRUE, "detached_head", 0, local, 0)
    ELSE IF cfg.smart_update
    THEN LET c == _count_commits_behind(local, probe) IN
         IF c.behind = 0
         THEN UpdateStatus(FALSE, "up_to_date", 0, c.repo, 1)
         ELSE UpdateStatus(TRUE, "commits_behind", c.behind, c.repo, 1)
    ELSE UpdateStatus(TRUE, "scheduled", 0, local, 0)

\* determine_project_action without the remote comparison of case 3.
determine_project_action_no_remote_check(p, local) ==
    IF local.kind = "unreadable" THEN "raise"
    ELSE IF local.kind = "absent" THEN TO_CLONE
    ELSE IF ~is_git_repository(local) THEN IGNORED
    ELSE ALREADY_UP_TO_DATE

\* determine_project_action treating a directory that is not a repository
\* as a path to clone into.
determine_project_action_clone_over_dir(p, local) ==
    IF local.kind = "unreadable" THEN "raise"
    ELSE IF local.kind = "absent" \/ ~is_git_repository(local) THEN TO_CLONE
    ELSE IF ~matches_project(local, p) THEN IGNORED
    ELSE ALREADY_UP_TO_DATE

\* ------------------------------------------------ sync.py decision engine
\* determine_project_action.  "raise" stands for the exception that
\* local_path.exists() / git.Repo() propagate for a path they cannot read
\* (only InvalidGitRepositoryError and NoSuchPathError are caught).
determine_project_action(p, local) ==
    IF local.kind = "unreadable" THEN "raise"
    ELSE IF local.kind = "absent" THEN TO_CLONE
    ELSE IF ~is_git_repository(local) THEN IGNORED
    ELSE IF ~matches_project(local, p) THEN IGNORED
    ELSE ALREADY_UP_TO_DATE

\* --------------------------------------------------------- result values
Msg(kind, detail) == [kind |-> kind, detail |-> detail]

NoMsg == Msg("none", "")

SyncResult(p, status, error_message) ==
    [id |-> p, status |-> status, error_message |-> error_message]

\* The state of a future: not done, done with the SyncResult that
\* sync_project returned, or done with the exception it raised.
Pending == [done |-> FALSE, raised |-> FALSE, status |-> "none", error_message |-> NoMsg]

Returned(status, error_message) ==
    [done |-> TRUE, raised |-> FALSE, status |-> status, error_message |-> error_message]

Raised(error_message) ==
    [done |-> TRUE, raised |-> TRUE, status |-> "none", error_message |-> error_message]

NoPolicy ==
    [evaluated |-> FALSE, needs_update |-> FALSE, reason |-> "", commits_behind |-> 0,
     probe |-> "none"]

\* sleep: the delays of the time.sleep calls of the retry loop, in order.
NoCalls ==
    [clone |-> 0, fetch |-> 0, pull |-> 0, rmtree |-> 0, mkdir |-> 0, sleep |-> <<>>,
     askpass |-> 0, unlink |-> 0]

\* The command has not exited.
NoExit == -1

NoSummary ==
    [total_projects |-> 0, cloned |-> 0, updated |-> 0, already_up_to_date |-> 0,
     ignored |-> 0, excluded |-> 0, errors |-> 0]

\* str(e) of the exception raised by the n-th attempt of a retry loop: every
\* attempt fails with a message of its own.
ErrorOfAttempt(n) == <<"E1", "E2", "E3", "E4", "E5", "E6">>[n]

\* ------------------------------------------------------- transport layer
get_clone_url(cfg, p) ==
    IF cfg.clone_method = "ssh" THEN ssh_url_to_repo(p) ELSE http_url_to_repo(p)

\* What a successful git clone leaves at the target path.
ClonedRepo(cfg, p) ==
    LocalState("repo", get_clone_url(cfg, p), "clean", FALSE, NoFetchHead, RemoteHead)

\* One attempt too many.
MaxAttempts_one_more(cfg) == cfg.max_retries + 2

\* range(self.config.max_retries + 1)
MaxAttempts(cfg) == cfg.max_retries + 1

\* clone_repository without its dry_run test.
CloneShortCircuit_never(cfg) == FALSE

\* clone_repository / update_repository return before touching anything.
CloneShortCircuit(cfg) == cfg.dry_run

UpdateShortCircuit(cfg) == ~cfg.update_existing \/ cfg.dry_run

\* _update_with_retry pulling whenever fetch_only is off, detached or not.
UpdateOperation_pull_detached(cfg, local) ==
    IF cfg.fetch_only THEN "fetch" ELSE "pull"

\* _update_with_retry pulling on every attached HEAD, fetch_only or not.
UpdateOperation_ignores_fetch_only(cfg, local) ==
    IF ~local.detached THEN "pull" ELSE "fetch"

\* _update_with_retry: fetch, or pull when not fetch_only and HEAD attached.
UpdateOperation(cfg, local) ==
    IF cfg.fetch_only THEN "fetch"
    ELSE IF ~local.detached THEN "pull" ELSE "fetch"

\* The message returned when every attempt raised GitCommandError.
ExhaustedMessage(err) == Msg("exhausted", err)

\* A mapping that reports every successful update call as updated.
UpdateResultStatus_ignores_change(success, was_updated) ==
    IF success THEN UPDATED ELSE ERROR

\* sync_project: the status of an update from (success, was_updated).
UpdateResultStatus(success, was_updated) ==
    IF success THEN (IF was_updated THEN UPDATED ELSE ALREADY_UP_TO_DATE)
    ELSE ERROR

\* sync_project: the status of a clone from its success flag.
CloneResultStatus(success) == IF success THEN CLONED ELSE ERROR

\* ------------------------------------------------------ sync.py filtering
\* GitLabProject.path_with_namespace, and the characters of the strings the
\* glob matching reads (paths and patterns).
path_with_namespace(p) == <<"g/p1", "g/p2", "g/p3", "g/p4", "g/p5">>[p]

Chars(s) ==
    CASE s = "g/p1" -> <<"g", "/", "p", "1">>
      [] s = "g/p2" -> <<"g", "/", "p", "2">>
      [] s = "g/p3" -> <<"g", "/", "p", "3">>
      [] s = "g/p4" -> <<"g", "/", "p", "4">>
      [] s = "g/p5" -> <<"g", "/", "p", "5">>
      [] s = "*" -> <<"*">>
      [] s = "g/*" -> <<"g", "/", "*">>
      [] s = "g/p?" -> <<"g", "/", "p", "?">>
      [] s = "*1" -> <<"*", "1">>
      [] s = "*2" -> <<"*", "2">>
      [] s = "x/*" -> <<"x", "/", "*">>
      [] s = "?" -> <<"?">>
      [] OTHER -> <<>>

\* fnmatch on characters: "*" matches any run of characters ("/" included),
\* "?" exactly one character, any other character itself; the whole name
\* has to be consumed.
RECURSIVE GlobMatch(_, _)
GlobMatch(name, pat) ==
    IF pat = <<>> THEN name = <<>>
    ELSE IF Head(pat) = "*"
    THEN GlobMatch(name, Tail(pat)) \/ (name # <<>> /\ GlobMatch(Tail(name), pat))
    ELSE IF name = <<>> THEN FALSE
    ELSE IF Head(pat) = "?" THEN GlobMatch(Tail(name), Tail(pat))
    ELSE Head(pat) = Head(name) /\ GlobMatch(Tail(name), Tail(pat))

fnmatch(path, pattern) == GlobMatch(Chars(path), Chars(pattern))

\* The first pattern of the list that matches the path: its index, or 0.
RECURSIVE FirstMatch(_, _, _)
FirstMatch(path, patterns, i) ==
    IF i > Len(patterns) THEN 0
    ELSE IF fnmatch(path, patterns[i]) THEN i
    ELSE FirstMatch(path, patterns, i + 1)

\* is_project_excluded with the exclude patterns skipped for a project that
\* passed the include gate.
is_project_excluded_include_wins(cfg, p) ==
    LET path == path_with_namespace(p) IN
    IF cfg.include_patterns # <<>>
    THEN FirstMatch(path, cfg.include_patterns, 1) = 0
    ELSE IF cfg.exclude_patterns # <<>>
            /\ FirstMatch(path, cfg.exclude_patterns, 1) # 0
    THEN TRUE
    ELSE FALSE

is_project_excluded(cfg, p) ==
    LET path == path_with_namespace(p) IN
    IF cfg.include_patterns # <<>>
       /\ FirstMatch(path, cfg.include_patterns, 1) = 0
    THEN TRUE
    ELSE IF cfg.exclude_patterns # <<>>
            /\ FirstMatch(path, cfg.exclude_patterns, 1) # 0
    THEN TRUE
    ELSE FALSE

\* A lookup that reports a matching exclude pattern before it looks at the
\* include patterns.
_find_matching_pattern_exclude_first(cfg, p) ==
    LET path == path_with_namespace(p)
        i == FirstMatch(path, cfg.exclude_patterns, 1)
    IN IF i # 0 THEN cfg.exclude_patterns[i]
       ELSE IF cfg.include_patterns # <<>>
               /\ FirstMatch(path, cfg.include_patterns, 1) = 0
       THEN "non inclus"
       ELSE "unknown"

\* _find_matching_pattern: what excluded the project.
_find_matching_pattern(cfg, p) ==
    LET path == path_with_namespace(p)
        i == FirstMatch(path, cfg.exclude_patterns, 1)
    IN IF cfg.include_patterns # <<>>
          /\ FirstMatch(path, cfg.include_patterns, 1) = 0
       THEN "non inclus"
       ELSE IF i # 0 THEN cfg.exclude_patterns[i]
       ELSE "unknown"

\* The list returned by discover_all_projects, in the order of the ids.
RECURSIVE ProjectList(_)
ProjectList(ps) ==
    IF ps = {} THEN <<>>
    ELSE LET first == CHOOSE a \in ps : \A b \in ps : a <= b IN
         <<first>> \o ProjectList(ps \ {first})

\* The filtering loop of sync_groups letting every project through to the
\* pool, excluded ones included.
IncludedProjects_keep_all(cfg, list) == {list[i] : i \in 1..Len(list)}

\* The filtering loop of sync_groups: the projects kept for the pool ...
IncludedProjects(cfg, list) ==
    IF cfg.exclude_patterns # <<>> \/ cfg.include_patterns # <<>>
    THEN {list[i] : i \in {j \in 1..Len(list) : ~is_project_excluded(cfg, list[j])}}
    ELSE {list[i] : i \in 1..Len(list)}

\* ... and the excluded results, one per excluded project, in list order.
RECURSIVE ExcludedResults(_, _)
ExcludedResults(cfg, list) ==
    IF cfg.exclude_patterns = <<>> /\ cfg.include_patterns = <<>> THEN <<>>
    ELSE IF list = <<>> THEN <<>>
    ELSE (IF is_project_excluded(cfg, Head(list))
          THEN <<SyncResult(Head(list), EXCLUDED,
                            Msg("excluded", _find_matching_pattern(cfg, Head(list))))>>
          ELSE <<>>)
         \o ExcludedResults(cfg, Tail(list))

\* The collector losing the result of a future that raised.
CollectResult_drop_raised(res, p, fut, callback) ==
    IF fut.raised
    THEN res
    ELSE LET appended == Append(res, SyncResult(p, fut.status, fut.error_message)) IN
         IF callback = "raises"
         THEN Append(appended, SyncResult(p, ERROR, Msg("exception", "callback")))
         ELSE appended

\* ----------------------------------------------- sync.py collector values
\* The body of the as_completed loop for one done future: the result (or
\* the error result of the except branch) is appended; the progress
\* callback runs inside the same try block, after the append.
CollectResult(res, p, fut, callback) ==
    IF fut.raised
    THEN Append(res, SyncResult(p, ERROR, fut.error_message))
    ELSE LET appended == Append(res, SyncResult(p, fut.status, fut.error_message)) IN
         IF callback = "raises"
         THEN Append(appended, SyncResult(p, ERROR, Msg("exception", "callback")))
         ELSE appended

\* A summary whose total leaves the excluded results out.
_build_summary_total_without_excluded(res) ==
    [total_projects |-> Len(res) - Cardinality({i \in 1..Len(res) : res[i].status = EXCLUDED}),
     cloned |-> Cardinality({i \in 1..Len(res) : res[i].status = CLONED}),
     updated |-> Cardinality({i \in 1..Len(res) : res[i].status = UPDATED}),
     already_up_to_date |->
         Cardinality({i \in 1..Len(res) : res[i].status = ALREADY_UP_TO_DATE}),
     ignored |-> Cardinality({i \in 1..Len(res) : res[i].status = IGNORED}),
     excluded |-> Cardinality({i \in 1..Len(res) : res[i].status = EXCLUDED}),
     errors |-> Cardinality({i \in 1..Len(res) : res[i].status = ERROR})]

CountStatus(res, status) == Cardinality({i \in 1..Len(res) : res[i].status = status})

_build_summary(res) ==
    [total_projects |-> Len(res),
     cloned |-> CountStatus(res, CLONED),
     updated |-> CountStatus(res, UPDATED),
     already_up_to_date |-> CountStatus(res, ALREADY_UP_TO_DATE),
     ignored |-> CountStatus(res, IGNORED),
     excluded |-> CountStatus(res, EXCLUDED),
     errors |-> CountStatus(res, ERROR)]

\* A float as an exact fraction.
Fraction(num, den) == [num |-> num, den |-> den]

FractionEq(a, b) == a.num * b.den = b.num * a.den

\* success_rate leaving the ignored projects out of the denominator too.
success_rate_without_ignored(sm) ==
    LET effective_total == sm.total_projects - sm.excluded - sm.ignored IN
    IF effective_total = 0 THEN Fraction(100, 1)
    ELSE LET successful == sm.cloned + sm.updated + sm.already_up_to_date IN
         Fraction(successful * 100, effective_total)

\* success_rate dividing by every project, excluded ones included.
success_rate_over_all(sm) ==
    LET effective_total == sm.total_projects IN
    IF effective_total = 0 THEN Fraction(100, 1)
    ELSE LET successful == sm.cloned + sm.updated + sm.already_up_to_date IN
         Fraction(successful * 100, effective_total)

\* models.py SyncSummary.success_rate, in percent.
success_rate(sm) ==
    LET effective_total == sm.total_projects - sm.excluded IN
    IF effective_total = 0 THEN Fraction(100, 1)
    ELSE LET successful == sm.cloned + sm.updated + sm.already_up_to_date IN
         Fraction(successful * 100, effective_total)

StatusesOf(res, p) == {res[i].status : i \in {j \in 1..Len(res) : res[j].id = p}}

\* ---------------------------------------------------------------- inputs
\* The options the engine reads.  The token is never empty in a run:
\* ensure_token rejects an empty one before the synchroniser is built.
ConfigOf(dry, upd, smart, fetchonly, skip, retries, workers, method, callback) ==
    [dry_run |-> dry, update_existing |-> upd, smart_update |-> smart,
     fetch_only |-> fetchonly, skip_recent_hours |-> skip, max_retries |-> retries,
     max_workers |-> workers, clone_method |-> method, progress_callback |-> callback,
     include_patterns |-> <<>>, exclude_patterns |-> <<>>, token |-> "T"]

Callbacks == {"none", "raises"}

\* Every configuration: used for the runs over one project.
AllConfigs ==
    {ConfigOf(dry, upd, smart, fetchonly, skip, retries, workers, method, callback) :
        dry \in BOOLEAN, upd \in BOOLEAN, smart \in BOOLEAN, fetchonly \in BOOLEAN,
        skip \in {0, 3}, retries \in 0..MaxRetries, workers \in 1..MaxWorkers,
        method \in {"http", "ssh"}, callback \in Callbacks}

\* The default options of Config with every pool size, retry count and
\* callback: used for the runs over several projects.
DefaultConfigs ==
    {ConfigOf(FALSE, TRUE, TRUE, TRUE, 0, retries, workers, "http", callback) :
        retries \in 0..MaxRetries, workers \in 1..MaxWorkers, callback \in Callbacks}

FetchHeads == {NoFetchHead, [exists |-> TRUE, age |-> 1], [exists |-> TRUE, age |-> 5]}

MatchingRepos(p) ==
    {LocalState("repo", TokenUrl(p), dirty, detached, fh, head) :
        dirty \in {"clean", "dirty", "error"}, detached \in BOOLEAN,
        fh \in FetchHeads, head \in Commits}

ForeignRepo == LocalState("repo", ForeignUrl, "clean", FALSE, NoFetchHead, RemoteHead)

NoOriginRepo == LocalState("repo", NoUrl, "clean", FALSE, NoFetchHead, RemoteHead)

AllLocals(p) ==
    {Absent, PlainDir, Unreadable, ForeignRepo, NoOriginRepo} \cup MatchingRepos(p)

PoolLocals(p) ==
    {Absent, PlainDir, Unreadable,
     LocalState("repo", TokenUrl(p), "clean", FALSE, NoFetchHead, 1)}

\* Config with include / exclude patterns.
WithPatterns(cfg, include, exclude) ==
    [cfg EXCEPT !.include_patterns = include, !.exclude_patterns = exclude]

IncludeLists == {<<>>, <<"g/p1">>, <<"g/p?">>, <<"x/*", "*2">>}

ExcludeLists == {<<>>, <<"*1">>, <<"g/*">>, <<"x/*">>, <<"?", "*2">>}

\* The default options with every pool size and every pair of pattern
\* lists: used for the runs with filtering.
FilterConfigs ==
    {WithPatterns(ConfigOf(FALSE, TRUE, TRUE, TRUE, 0, 0, workers, "http", "none"),
                  include, exclude) :
        workers \in 1..MaxWorkers,
        include \in IncludeLists, exclude \in ExcludeLists}

GroupLocals(p) ==
    {Absent, LocalState("repo", TokenUrl(p), "clean", FALSE, NoFetchHead, 1)}

\* Exclude lists in which several patterns match the same path.
OverlappingExcludeLists ==
    {<<"*2", "g/*">>, <<"g/*", "*2">>, <<"x/*", "g/p?", "*1">>, <<"*", "g/p1">>}

\* One pool thread and every pair of pattern lists, overlapping ones
\* included: used for the diagnostics of the filtering.
DiagnosticConfigs ==
    {WithPatterns(ConfigOf(FALSE, TRUE, TRUE, TRUE, 0, 0, 1, "http", "none"),
                  include, exclude) :
        include \in IncludeLists,
        exclude \in ExcludeLists \cup OverlappingExcludeLists}

\* Config.max_workers: Field(default=4, ge=1, le=32).
max_workers_default == 4

\* The constraint of the field (ge=1, le=32), applied by pydantic when
\* Config() is built.
FieldValid(v) == v >= 1 /\ v <= 32

\* A source of max_workers: not set, or set to a value, in or out of range.
WorkerSettings ==
    {[set |-> FALSE, value |-> 0]}
      \cup {[set |-> TRUE, value |-> v] : v \in {0, 1, MaxWorkers, 32, 33}}

\* Config(): the environment (or the .env file) over the class default.
SettingsValue(env) == IF env.set THEN env.value ELSE max_workers_default

\* A load_config whose assignments are validated like the constructor's:
\* a value out of range is not assigned.
load_config_validated(env, toml, cli) ==
    LET base == IF FieldValid(SettingsValue(env)) THEN SettingsValue(env)
                ELSE max_workers_default
        after_toml == IF toml.set /\ FieldValid(toml.value) THEN toml.value ELSE base
    IN IF cli.set /\ FieldValid(cli.value) THEN cli.value ELSE after_toml

\* load_config, for max_workers: Config() validates the environment value
\* (a value out of range raises and no configuration is returned: the
\* class default stands in for it); the TOML value and then the --threads
\* value are assigned to the attribute, and an assignment is not validated.
load_config(env, toml, cli) ==
    LET base == IF FieldValid(SettingsValue(env)) THEN SettingsValue(env)
                ELSE max_workers_default
        after_toml == IF toml.set THEN toml.value ELSE base
    IN IF cli.set THEN cli.value ELSE after_toml

\* The options of the sync command (it passes no progress callback), with
\* and without --dry-run, with and without an exclude pattern.
CmdConfigs ==
    {WithPatterns(ConfigOf(dry, TRUE, TRUE, TRUE, 0, 0, workers, "http", "none"),
                  <<>>, exclude) :
        dry \in BOOLEAN, workers \in 1..MaxWorkers, exclude \in {<<>>, <<"*1">>}}

CmdLocals(p) ==
    {Absent, PlainDir, Unreadable,
     LocalState("repo", TokenUrl(p), "clean", FALSE, NoFetchHead, 1)}

\* A call of _store_credential that has not started: the line it is to add
\* and the lines it has read.
WriterOf(line) == [pc |-> "start", line |-> line, existing |-> {}]

CredentialLines == {"h", "h2"}

StoredBefore == SUBSET {"a", "h"}

\* The frame of discover_all_projects: the identifiers, the loop index, the
\* two accumulators; scans is the list of group ids passed to
\* get_all_projects_fast, skipped the identifiers that did not resolve.
DiscoveryOf(identifiers) ==
    [identifiers |-> identifiers, i |-> 1, processed_group_ids |-> {},
     all_projects |-> <<>>, scans |-> <<>>, skipped |-> {}, returned |-> FALSE,
     unique_projects |-> <<>>]

NoDiscovery == DiscoveryOf(<<>>)

Identifiers == {"1", "top", "2", "top/sub", "3", "x"}

IdentifierLists == UNION {[1..n -> Identifiers] : n \in 0..MaxIdentifiers}

\* The ways the origin URL of a clone of project p can be written: with or
\* without embedded credentials, host and namespace in either case, with or
\* without the .git suffix and a trailing slash.
HttpVariant(p, creds, host, group, suffix) ==
    <<"https", "://">> \o creds \o <<host, "/", group, "/", PathName(p)>> \o suffix

SshVariant(p, suffix) == <<"git@h:", "g", "/", PathName(p)>> \o suffix

UrlSuffixes == {<<>>, <<".git">>, <<"/">>, <<".git", "/">>}

SameProjectUrls(p) ==
    {HttpVariant(p, creds, host, group, suffix) :
        creds \in {<<>>, <<"oauth2:T", "@">>}, host \in {"h", "H"},
        group \in {"g", "G"}, suffix \in UrlSuffixes}
    \cup {SshVariant(p, suffix) : suffix \in UrlSuffixes}

\* Origin URLs of other repositories: another project of the group, another
\* path, the same path over another scheme, and no origin at all.
OtherUrls(p) ==
    {ForeignUrl, NoUrl, http_url_to_repo(IF p = 1 THEN 2 ELSE 1),
     ssh_url_to_repo(IF p = 1 THEN 2 ELSE 1),
     <<"http", "://", "h", "/", "g", "/", PathName(p), ".git">>,
     <<"ssh", "://", "git", "@", "h", "/", "g", "/", PathName(p), ".git">>}

MatchLocals(p) ==
    {Absent, PlainDir}
    \cup {LocalState("repo", url, "clean", FALSE, NoFetchHead, 1) :
            url \in SameProjectUrls(p) \cup OtherUrls(p)}

\* Two sibling projects under the default options with every retry count
\* and both update operations: used for the runs of the retry loops.
RetryProjects == {1, 2}

RetryConfigs ==
    {ConfigOf(FALSE, TRUE, TRUE, fetchonly, 0, retries, 2, "http", "none") :
        fetchonly \in BOOLEAN, retries \in 0..MaxBackoffRetries}

\* Both clone methods, with and without --dry-run, every retry count.
AskpassConfigs ==
    {ConfigOf(dry, TRUE, TRUE, TRUE, 0, retries, 2, method, "none") :
        dry \in BOOLEAN, retries \in 0..MaxRetries, method \in {"http", "ssh"}}

RetryLocals(p) ==
    {Absent, LocalState("repo", TokenUrl(p), "clean", FALSE, NoFetchHead, 1)}

\* What the command meets before and during discovery: a configuration
\* that load_config / ensure_token reject, an authentication or a connection
\* failure in the constructor of GitLabClient, or an exception that is not
\* a GitlabError raised by a call of discover_all_projects.
GitLabOutcomes == {"ok", "config_error", "auth_error", "unreachable", "discovery_error"}

\* ------------------------------------------------------------------ Init
InitWith(ps, cfgs) ==
    /\ projects = ps
    /\ config \in cfgs
    /\ run = 1
    /\ phase = "init"
    /\ root_exists = (\E p \in ps : fs[p].kind # "absent")
    /\ group_exists = (\E p \in ps : fs[p].kind # "absent")
    /\ pc = [p \in ps |-> "queued"]
    /\ attempt = [p \in ps |-> 0]
    /\ last_error = [p \in ps |-> ""]
    /\ future = [p \in ps |-> Pending]
    /\ policy = [p \in ps |-> NoPolicy]
    /\ calls = [p \in ps |-> NoCalls]
    /\ seen = [p \in ps |-> fs[p]]
    /\ results = <<>>
    /\ summary = NoSummary
    /\ prev = [p \in ps |-> {}]
    /\ excluded_results = <<>>
    /\ worker = [p \in ps |-> 0]
    /\ touched = [p \in ps |-> {}]
    /\ interrupted = FALSE
    /\ exit_code = NoExit

\* git answers, nothing calls the credential store, no discovery runs.
InitEnvironment ==
    /\ git_available = TRUE
    /\ gitlab = "ok"
    /\ git_credentials = {}
    /\ credentials_before = {}
    /\ writers = <<>>
    /\ discovery = NoDiscovery

\* Several projects, the pool and the collector.
Init ==
    /\ fs \in {f \in [1..NumProjects -> UNION {PoolLocals(p) : p \in 1..NumProjects}] :
                 \A p \in 1..NumProjects : f[p] \in PoolLocals(p)}
    /\ InitWith(1..NumProjects, DefaultConfigs)
    /\ InitEnvironment

\* One project in every local state under the default options.
InitDefault ==
    /\ fs \in [{1} -> AllLocals(1)]
    /\ InitWith({1}, DefaultConfigs)
    /\ InitEnvironment

\* One project in every local state under every configuration.
InitProject ==
    /\ fs \in [{1} -> AllLocals(1)]
    /\ InitWith({1}, AllConfigs)
    /\ InitEnvironment

\* Several discovered projects under every filter configuration.
InitGroups ==
    /\ fs \in {f \in [1..NumProjects -> UNION {GroupLocals(p) : p \in 1..NumProjects}] :
                 \A p \in 1..NumProjects : f[p] \in GroupLocals(p)}
    /\ InitWith(1..NumProjects, FilterConfigs)
    /\ InitEnvironment

\* The sync command over several projects, with git present or missing.
InitCmd ==
    /\ fs \in {f \in [1..NumProjects -> UNION {CmdLocals(p) : p \in 1..NumProjects}] :
                 \A p \in 1..NumProjects : f[p] \in CmdLocals(p)}
    /\ InitWith(1..NumProjects, CmdConfigs)
    /\ git_available \in BOOLEAN
    /\ gitlab \in GitLabOutcomes
    /\ git_credentials = {}
    /\ credentials_before = {}
    /\ writers = <<>>
    /\ discovery = NoDiscovery

\* Several workers about to store a credential in a file that holds some.
InitStore ==
    /\ fs = <<>>
    /\ InitWith({}, {ConfigOf(FALSE, TRUE, TRUE, TRUE, 0, 0, NumWriters, "http", "none")})
    /\ git_available = TRUE
    /\ gitlab = "ok"
    /\ git_credentials \in StoredBefore
    /\ credentials_before = git_credentials
    /\ writers \in [1..NumWriters -> {WriterOf(line) : line \in CredentialLines}]
    /\ discovery = NoDiscovery

\* discover_all_projects called with any list of group identifiers.
InitDiscovery ==
    /\ fs = <<>>
    /\ InitWith({}, {ConfigOf(FALSE, TRUE, TRUE, TRUE, 0, 0, 1, "http", "none")})
    /\ git_available = TRUE
    /\ gitlab = "ok"
    /\ git_credentials = {}
    /\ credentials_before = {}
    /\ writers = <<>>
    /\ discovery \in {DiscoveryOf(identifiers) : identifiers \in IdentifierLists}

\* One project whose path holds a repository with any origin URL.
InitMatch ==
    /\ fs \in [{1} -> MatchLocals(1)]
    /\ InitWith({1}, DefaultConfigs)
    /\ InitEnvironment

\* One project to clone and one to update, with max_workers loaded from
\* every combination of environment, TOML file and --threads.
InitWorkers ==
    /\ fs \in {f \in [1..NumProjects -> UNION {GroupLocals(p) : p \in 1..NumProjects}] :
                 \A p \in 1..NumProjects : f[p] \in GroupLocals(p)}
    /\ \E env \in WorkerSettings, toml \in WorkerSettings, cli \in WorkerSettings :
         /\ InitWith(1..NumProjects,
                     {ConfigOf(FALSE, TRUE, TRUE, TRUE, 0, 0,
                               load_config(env, toml, cli), "http", "none")})
         /\ gitlab = IF FieldValid(SettingsValue(env)) THEN "ok" ELSE "config_error"
    /\ git_available = TRUE
    /\ git_credentials = {}
    /\ credentials_before = {}
    /\ writers = <<>>
    /\ discovery = NoDiscovery

\* Two projects to clone or update whose attempts fail and retry, with
\* every pool size and with a callback that returns or raises.
InitLive ==
    /\ fs \in {f \in [RetryProjects -> UNION {RetryLocals(p) : p \in RetryProjects}] :
                 \A p \in RetryProjects : f[p] \in RetryLocals(p)}
    /\ InitWith(RetryProjects, DefaultConfigs)
    /\ InitEnvironment

\* Two projects to clone or update over http and over ssh.
InitAskpass ==
    /\ fs \in {f \in [RetryProjects -> UNION {RetryLocals(p) : p \in RetryProjects}] :
                 \A p \in RetryProjects : f[p] \in RetryLocals(p)}
    /\ InitWith(RetryProjects, AskpassConfigs)
    /\ InitEnvironment

\* Several discovered projects under every pair of pattern lists.
InitFilter ==
    /\ fs \in {f \in [1..NumProjects -> UNION {GroupLocals(p) : p \in 1..NumProjects}] :
                 \A p \in 1..NumProjects : f[p] \in GroupLocals(p)}
    /\ InitWith(1..NumProjects, DiagnosticConfigs)
    /\ InitEnvironment

\* Two sibling projects to clone or update, with every retry count.
InitRetry ==
    /\ fs \in {f \in [RetryProjects -> UNION {RetryLocals(p) : p \in RetryProjects}] :
                 \A p \in RetryProjects : f[p] \in RetryLocals(p)}
    /\ InitWith(RetryProjects, RetryConfigs)
    /\ InitEnvironment

\* --------------------------------------------------------------- actions
Running == {q \in projects : pc[q] \in {"cloning", "updating"}}

ProbeOutcomes == {"ok", "fetch_failed", "count_failed"}

AttemptOutcomes == {"ok", "git_error", "other_error"}

\* The summary sync_groups returns when the filtering left no project.
EmptySummary(excluded) ==
    [total_projects |-> Len(excluded), cloned |-> 0, updated |-> 0,
     already_up_to_date |-> 0, ignored |-> 0, excluded |-> Len(excluded),
     errors |-> 0]

\* A create_root_dir that leaves the root directory as it found it.
create_root_dir_noop(exists) == exists

\* Config.create_root_dir: mkdir(parents=True, exist_ok=True), after which
\* the root directory exists.
create_root_dir(exists) == TRUE

\* sync_groups up to the submission of every included project: git is
\* probed, the root directory is created unless dry_run, the projects are
\* discovered and filtered, then the futures are submitted.  With no
\* project left the summary is returned at once.  An exception of the
\* discovery leaves sync_groups after the root directory was created, and
\* so does the ValueError of ThreadPoolExecutor for a max_workers <= 0.
SyncGroupsStart ==
    /\ phase = "init"
    /\ ~interrupted
    /\ gitlab \in {"ok", "discovery_error"}
    /\ IF ~git_available
       THEN /\ phase' = "fatal"
            /\ UNCHANGED <<root_exists, projects, excluded_results, summary, pc>>
       ELSE IF gitlab = "discovery_error"
       THEN /\ root_exists' = (IF config.dry_run THEN root_exists
                             ELSE create_root_dir(root_exists))
            /\ phase' = "fatal"
            /\ UNCHANGED <<projects, excluded_results, summary, pc>>
       ELSE /\ root_exists' = (IF config.dry_run THEN root_exists
                             ELSE create_root_dir(root_exists))
            /\ projects' = IncludedProjects(config, ProjectList(projects))
            /\ excluded_results' = ExcludedResults(config, ProjectList(projects))
            /\ pc' = [p \in DOMAIN pc |-> "queued"]
            /\ IF projects' = {}
               THEN /\ phase' = "done"
                    /\ summary' = EmptySummary(excluded_results')
               ELSE IF config.max_workers <= 0
               THEN /\ phase' = "fatal"
                    /\ UNCHANGED summary
               ELSE /\ phase' = "pool"
                    /\ UNCHANGED summary
    /\ UNCHANGED <<git_available, gitlab, exit_code, config, fs, group_exists, run,
                   attempt, last_error, future, policy, calls, seen, results, prev,
                   worker, touched, interrupted, git_credentials, writers,
                   credentials_before, discovery>>

\* sync_cmd before sync_groups: load_config / ensure_token raise ValueError,
\* or the constructor of ProjectSynchronizer raises because GitLabClient
\* cannot authenticate or connect.  The command exits with status 1.
SyncCmdAbort ==
    /\ phase = "init"
    /\ ~interrupted
    /\ gitlab \in {"config_error", "auth_error", "unreachable"}
    /\ phase' = "fatal"
    /\ UNCHANGED <<git_available, gitlab, exit_code, config, projects, fs,
                   root_exists, group_exists, run, pc, attempt, last_error, future,
                   policy, calls, seen, results, summary, prev, excluded_results,
                   worker, touched, interrupted, git_credentials, writers,
                   credentials_before, discovery>>

\* A pool whose threads are not handed back once their project is done.
FreeWorkers_not_released(cfg, busy) ==
    (1..cfg.max_workers) \ {worker[q] : q \in DOMAIN worker}

\* A pool that starts a thread for every submitted project.
FreeWorkers_unbounded(cfg, busy) == (1..(cfg.max_workers + NumProjects)) \ busy

\* ThreadPoolExecutor(max_workers): the threads not running a project.
FreeWorkers(cfg, busy) == (1..cfg.max_workers) \ busy

\* get_local_path: root_dir / path_with_namespace, as path components.
root_dir == <<"root">>

\* Every project mapped to the directory of its namespace.
get_local_path_namespace_only(p) == root_dir \o <<"g">>

get_local_path(p) == root_dir \o <<"g", PathName(p)>>

Parent(path) == SubSeq(path, 1, Len(path) - 1)

\* Path a is path b or one of its ancestors.
IsPrefix(a, b) == Len(a) <= Len(b) /\ SubSeq(b, 1, Len(a)) = a

\* shutil.rmtree(path): whatever lies at the path or below it is gone.
Rmtree(tree, path) ==
    [q \in DOMAIN tree |->
        IF IsPrefix(path, get_local_path(q)) THEN Absent ELSE tree[q]]

\* A cleanup that removes the directory of the namespace.
CleanupTarget_parent(p) == Parent(get_local_path(p))

\* _clone_with_retry: the path its cleanup removes is the target path.
CleanupTarget(p) == get_local_path(p)

\* A delay that grows by one second per attempt.
BackoffDelay_linear(k) == k + 1

\* delay = 2 ** attempt, attempt counted from 0.
BackoffDelay(k) == 2 ^ k

\* _create_askpass_script: a temporary file of its own for every clone.
AskpassScript(p) == <<"tmp", "lgm_askpass", PathName(p)>>

\* The number of scripts _create_askpass_script creates: none without a
\* token or for ssh.
_create_askpass_script(cfg) ==
    IF cfg.token = "" \/ cfg.clone_method = "ssh" THEN 0 ELSE 1

\* The start of _clone_with_retry: the script is created once, before the
\* loop, for http with a token.
AskpassCreated(cfg) ==
    IF cfg.clone_method = "http" /\ cfg.token # ""
    THEN _create_askpass_script(cfg) ELSE 0

\* A cleanup that only runs when the clone succeeded.
FinallyUnlink_success_only(outcome, existing) ==
    IF outcome = "ok" THEN existing ELSE 0

\* The finally block of _clone_with_retry: the scripts that exist are
\* unlinked, however the function is left.
FinallyUnlink(outcome, existing) == existing

\* A free worker takes the next queued project and runs sync_project up to
\* its first transport attempt: determine_project_action, then the
\* short-circuits of clone_repository / update_repository, the parent mkdir
\* of a clone, or the staleness check of an update.
WorkerStart(p) ==
    /\ phase = "pool"
    /\ pc[p] = "queued"
    /\ \A q \in projects : q < p => pc[q] # "queued"
    /\ FreeWorkers(config, {worker[q] : q \in Running}) # {}
    /\ LET free == FreeWorkers(config, {worker[q] : q \in Running}) IN
       worker' = [worker EXCEPT ![p] = CHOOSE w \in free : \A v \in free : w <= v]
    /\ seen' = [seen EXCEPT ![p] = fs[p]]
    /\ attempt' = [attempt EXCEPT ![p] = 0]
    /\ last_error' = [last_error EXCEPT ![p] = ""]
    /\ LET action == determine_project_action(p, fs[p])
           inspected == [touched EXCEPT ![p] = @ \cup {get_local_path(p)}]
       IN
       \/ /\ action = "raise"
          /\ pc' = [pc EXCEPT ![p] = "finished"]
          /\ future' = [future EXCEPT ![p] = Raised(Msg("exception", "unreadable"))]
          /\ touched' = inspected
          /\ UNCHANGED <<fs, root_exists, group_exists, policy, calls>>
       \/ /\ action = TO_CLONE
          /\ CloneShortCircuit(config)
          /\ pc' = [pc EXCEPT ![p] = "finished"]
          /\ future' = [future EXCEPT ![p] = Returned(CloneResultStatus(TRUE), NoMsg)]
          /\ touched' = inspected
          /\ UNCHANGED <<fs, root_exists, group_exists, policy, calls>>
       \/ /\ action = TO_CLONE
          /\ ~CloneShortCircuit(config)
          /\ pc' = [pc EXCEPT ![p] = "cloning"]
          /\ root_exists' = TRUE
          /\ group_exists' = TRUE
          /\ calls' = [calls EXCEPT ![p].mkdir = @ + 1,
                                    ![p].askpass = @ + AskpassCreated(config)]
          /\ touched' = [inspected EXCEPT ![p] =
                            @ \cup {Parent(get_local_path(p))}
                              \cup (IF root_exists THEN {} ELSE {root_dir})
                              \cup (IF config.clone_method = "http"
                                    THEN {AskpassScript(p)} ELSE {})]
          /\ UNCHANGED <<fs, future, policy>>
       \/ /\ action = ALREADY_UP_TO_DATE
          /\ UpdateShortCircuit(config)
          /\ pc' = [pc EXCEPT ![p] = "finished"]
          /\ future' = [future EXCEPT ![p] = Returned(ALREADY_UP_TO_DATE, NoMsg)]
          /\ touched' = inspected
          /\ UNCHANGED <<fs, root_exists, group_exists, policy, calls>>
       \/ /\ action = ALREADY_UP_TO_DATE
          /\ ~UpdateShortCircuit(config)
          /\ touched' = inspected
          /\ \E probe \in ProbeOutcomes :
               LET st == check_if_behind_remote(fs[p], config, probe) IN
               /\ fs' = [fs EXCEPT ![p] = st.repo]
               /\ calls' = [calls EXCEPT ![p].fetch = @ + st.fetches]
               /\ policy' = [policy EXCEPT ![p] =
                                [evaluated |-> TRUE, needs_update |-> st.needs_update,
                                 reason |-> st.reason,
                                 commits_behind |-> st.commits_behind,
                                 probe |-> IF st.fetches > 0 THEN probe ELSE "none"]]
               /\ IF st.needs_update
                  THEN /\ pc' = [pc EXCEPT ![p] = "updating"]
                       /\ UNCHANGED future
                  ELSE /\ pc' = [pc EXCEPT ![p] = "finished"]
                       /\ future' = [future EXCEPT ![p] =
                                        Returned(UpdateResultStatus(TRUE, FALSE),
                                                 Msg("reason", st.reason))]
          /\ UNCHANGED <<root_exists, group_exists>>
       \/ /\ action = IGNORED
          /\ pc' = [pc EXCEPT ![p] = "finished"]
          /\ future' = [future EXCEPT ![p] = Returned(IGNORED, Msg("conflict", ""))]
          /\ touched' = inspected
          /\ UNCHANGED <<fs, root_exists, group_exists, policy, calls>>
    /\ UNCHANGED <<git_available, gitlab, exit_code, config, projects, run, phase, results,
                   summary, prev, excluded_results, interrupted, git_credentials,
                   writers, credentials_before, discovery>>

\* The credential line _store_credential writes for the host of a URL.
CredentialLine(url) ==
    LET starts == {i \in 1..Len(url) : url[i] = "://"} IN
    IF starts = {} \/ Len(url) < 3 THEN "none"
    ELSE LET i == CHOOSE a \in starts : \A b \in starts : a <= b IN
         IF i + 1 > Len(url) THEN "none" ELSE url[i + 1]

\* _setup_credential_helper on the repository a clone left: when the origin
\* URL carries credentials they are removed, credential.helper is set to
\* "store" in the repository and the credential is stored; an origin URL
\* without credentials leaves the repository as it is.
HasCredentials(url) == url # NoUrl /\ StripCredentials(url) # url

_setup_credential_helper(repo) ==
    IF HasCredentials(repo.origin)
    THEN [repo EXCEPT !.origin = StripCredentials(repo.origin),
                      !.credential_helper = TRUE]
    ELSE repo

\* What a successful attempt of _clone_with_retry leaves at the target.
CloneResult(cfg, p) ==
    IF cfg.clone_method = "http"
    THEN _setup_credential_helper(ClonedRepo(cfg, p))
    ELSE ClonedRepo(cfg, p)

\* One iteration of the loop of _clone_with_retry.  A GitCommandError
\* removes whatever the attempt left at the target and retries while
\* attempts remain; any other exception leaves the loop at once and is
\* turned into a failure by clone_repository.  However the function is
\* left, its finally block unlinks the askpass script.
CloneAttempt(p) ==
    /\ phase = "pool"
    /\ pc[p] = "cloning"
    /\ attempt' = [attempt EXCEPT ![p] = @ + 1]
    /\ \E out \in AttemptOutcomes, partial \in BOOLEAN :
         LET err == ErrorOfAttempt(attempt[p] + 1) IN
         \/ /\ out = "ok"
            /\ fs' = [fs EXCEPT ![p] = CloneResult(config, p)]
            /\ git_credentials' =
                 IF config.clone_method = "http"
                    /\ HasCredentials(ClonedRepo(config, p).origin)
                 THEN git_credentials
                        \cup {CredentialLine(StripCredentials(ClonedRepo(config, p).origin))}
                 ELSE git_credentials
            /\ calls' = [calls EXCEPT
                            ![p].clone = @ + 1,
                            ![p].unlink = @ + FinallyUnlink("ok", calls[p].askpass - @)]
            /\ pc' = [pc EXCEPT ![p] = "finished"]
            /\ future' = [future EXCEPT ![p] = Returned(CloneResultStatus(TRUE), NoMsg)]
            /\ UNCHANGED <<last_error, root_exists, group_exists>>
         \/ /\ out = "git_error"
            /\ LET left == [fs EXCEPT ![p] = IF partial THEN PlainDir ELSE fs[p]]
                   removed == CleanupTarget(p)
               IN IF left[p].kind # "absent"
                  THEN /\ fs' = Rmtree(left, removed)
                       /\ group_exists' = (group_exists /\ ~IsPrefix(removed, Parent(get_local_path(p))))
                       /\ root_exists' = (root_exists /\ ~IsPrefix(removed, root_dir))
                  ELSE /\ fs' = left
                       /\ UNCHANGED <<root_exists, group_exists>>
            /\ calls' = [calls EXCEPT
                            ![p].clone = @ + 1,
                            ![p].rmtree = @ + (IF partial THEN 1 ELSE 0),
                            ![p].sleep = IF attempt[p] < config.max_retries
                                         THEN Append(@, BackoffDelay(attempt[p])) ELSE @,
                            ![p].unlink = IF attempt[p] + 1 < MaxAttempts(config) THEN @
                                          ELSE @ + FinallyUnlink("git_error",
                                                                 calls[p].askpass - @)]
            /\ last_error' = [last_error EXCEPT ![p] = err]
            /\ IF attempt[p] + 1 < MaxAttempts(config)
               THEN UNCHANGED <<pc, future>>
               ELSE /\ pc' = [pc EXCEPT ![p] = "finished"]
                    /\ future' = [future EXCEPT ![p] =
                                     Returned(CloneResultStatus(FALSE), ExhaustedMessage(err))]
            /\ UNCHANGED git_credentials
         \/ /\ out = "other_error"
            /\ fs' = [fs EXCEPT ![p] = IF partial THEN PlainDir ELSE Absent]
            /\ calls' = [calls EXCEPT
                            ![p].clone = @ + 1,
                            ![p].unlink = @ + FinallyUnlink("other_error",
                                                            calls[p].askpass - @)]
            /\ pc' = [pc EXCEPT ![p] = "finished"]
            /\ future' = [future EXCEPT ![p] =
                             Returned(CloneResultStatus(FALSE), Msg("unexpected", err))]
            /\ UNCHANGED <<last_error, git_credentials, root_exists, group_exists>>
    /\ UNCHANGED <<git_available, gitlab, exit_code, config, projects, run, phase,
                   policy, seen, results, summary, prev, excluded_results, worker,
                   touched, interrupted, writers, credentials_before, discovery>>

\* A failed update that cleans its target up as a failed clone does.
UpdateFailureEffect_cleanup(tree, p) == Rmtree(tree, CleanupTarget(p))

\* The except branch of _update_with_retry records the error and sleeps:
\* it leaves the tree as the failed fetch / pull left it.
UpdateFailureEffect(tree, p) == tree

\* One iteration of the loop of _update_with_retry.
UpdateAttempt(p) ==
    /\ phase = "pool"
    /\ pc[p] = "updating"
    /\ attempt' = [attempt EXCEPT ![p] = @ + 1]
    /\ LET op == UpdateOperation(config, fs[p])
           called == IF op = "pull" THEN [calls EXCEPT ![p].pull = @ + 1]
                                    ELSE [calls EXCEPT ![p].fetch = @ + 1]
       IN
       \E out \in AttemptOutcomes :
            LET err == ErrorOfAttempt(attempt[p] + 1) IN
            \/ /\ out = "ok"
               /\ fs' = [fs EXCEPT ![p] = IF op = "pull" THEN PullEffect(@)
                                                        ELSE FetchEffect(@)]
               /\ pc' = [pc EXCEPT ![p] = "finished"]
               /\ future' = [future EXCEPT ![p] =
                                Returned(UpdateResultStatus(TRUE, TRUE), NoMsg)]
               /\ calls' = called
               /\ UNCHANGED last_error
            \/ /\ out = "git_error"
               /\ last_error' = [last_error EXCEPT ![p] = err]
               /\ calls' = [called EXCEPT
                               ![p].sleep = IF attempt[p] < config.max_retries
                                            THEN Append(@, BackoffDelay(attempt[p]))
                                            ELSE @]
               /\ IF attempt[p] + 1 < MaxAttempts(config)
                  THEN UNCHANGED <<pc, future>>
                  ELSE /\ pc' = [pc EXCEPT ![p] = "finished"]
                       /\ future' = [future EXCEPT ![p] =
                                        Returned(UpdateResultStatus(FALSE, FALSE),
                                                 ExhaustedMessage(err))]
               /\ fs' = UpdateFailureEffect(fs, p)
            \/ /\ out = "other_error"
               /\ pc' = [pc EXCEPT ![p] = "finished"]
               /\ future' = [future EXCEPT ![p] =
                                Returned(UpdateResultStatus(FALSE, FALSE),
                                         Msg("unexpected", err))]
               /\ calls' = called
               /\ UNCHANGED <<fs, last_error>>
    /\ UNCHANGED <<git_available, gitlab, exit_code, config, projects, root_exists,
                   group_exists, run, phase, policy, seen, results, summary, prev,
                   excluded_results, worker, touched, interrupted, git_credentials,
                   writers, credentials_before, discovery>>

\* The main thread takes one done future from as_completed.
Collect(p) ==
    /\ phase = "pool"
    /\ ~interrupted
    /\ pc[p] = "finished"
    /\ pc' = [pc EXCEPT ![p] = "collected"]
    /\ results' = CollectResult(results, p, future[p], config.progress_callback)
    /\ UNCHANGED <<git_available, gitlab, exit_code, config, projects, fs, root_exists,
                   group_exists, run, phase, attempt, last_error, future, policy,
                   calls, seen, summary, prev, excluded_results, worker, touched,
                   interrupted, git_credentials, writers, credentials_before,
                   discovery>>

\* Every future was collected: _sync_projects_parallel returns and
\* sync_groups builds the summary of the excluded and the pool results.
SyncGroupsReturn ==
    /\ phase = "pool"
    /\ ~interrupted
    /\ \A p \in projects : pc[p] = "collected"
    /\ phase' = "done"
    /\ summary' = _build_summary(excluded_results \o results)
    /\ UNCHANGED <<git_available, gitlab, exit_code, config, projects, fs, root_exists,
                   group_exists, run, pc, attempt, last_error, future, policy,
                   calls, seen, results, prev, excluded_results, worker, touched,
                   interrupted, git_credentials, writers, credentials_before,
                   discovery>>

\* The command is run again on the same tree with the same configuration
\* and the same remote, with no time elapsed.
NextRun ==
    /\ phase = "done"
    /\ run < MaxRuns
    /\ run' = run + 1
    /\ phase' = "init"
    /\ prev' = [p \in DOMAIN fs |-> StatusesOf(excluded_results \o results, p)]
    /\ projects' = DOMAIN fs
    /\ pc' = [p \in DOMAIN fs |-> "queued"]
    /\ attempt' = [p \in DOMAIN fs |-> 0]
    /\ last_error' = [p \in DOMAIN fs |-> ""]
    /\ future' = [p \in DOMAIN fs |-> Pending]
    /\ policy' = [p \in DOMAIN fs |-> NoPolicy]
    /\ calls' = [p \in DOMAIN fs |-> NoCalls]
    /\ seen' = fs
    /\ results' = <<>>
    /\ summary' = NoSummary
    /\ excluded_results' = <<>>
    /\ worker' = [p \in DOMAIN fs |-> 0]
    /\ touched' = [p \in DOMAIN fs |-> {}]
    /\ UNCHANGED <<git_available, gitlab, exit_code, config, fs, root_exists, group_exists,
                   interrupted, git_credentials, writers, credentials_before,
                   discovery>>

\* Ctrl-C: KeyboardInterrupt is raised in the main thread, which is in
\* discovery or in the as_completed loop.  It is not an Exception, so the
\* loop's except branch does not catch it; it leaves the with-block of the
\* executor, whose exit is shutdown(wait=True): the main thread collects
\* nothing more and waits for the pool.
Interrupt ==
    /\ phase \in {"init", "pool"}
    /\ ~interrupted
    /\ interrupted' = TRUE
    /\ UNCHANGED <<git_available, gitlab, exit_code, config, projects, fs, root_exists,
                   group_exists, run, phase, pc, attempt, last_error, future,
                   policy, calls, seen, results, summary, prev, excluded_results,
                   worker, touched, git_credentials, writers, credentials_before,
                   discovery>>

\* shutdown(wait=True) returns once no submitted future is pending or
\* running: queued futures are not cancelled.
PoolDrained == \A p \in projects : pc[p] \in {"finished", "collected"}

\* sync_cmd after sync_groups: sys.exit(1) when the summary counts errors,
\* a normal return otherwise; sys.exit(130) on KeyboardInterrupt; sys.exit(1)
\* on any other exception.
\* An exit status that also fails the run for ignored projects.
ExitCode_ignored_fails(sm) == IF sm.errors + sm.ignored > 0 THEN 1 ELSE 0

ExitCode(sm) == IF sm.errors > 0 THEN 1 ELSE 0

SyncCmdExit ==
    /\ phase \in {"init", "pool", "done", "fatal"}
    /\ \/ /\ phase = "done"
          /\ exit_code' = ExitCode(summary)
       \/ /\ phase = "fatal"
          /\ exit_code' = 1
       \/ /\ interrupted
          /\ phase = "init" \/ (phase = "pool" /\ PoolDrained)
          /\ exit_code' = 130
    /\ phase' = "exited"
    /\ UNCHANGED <<git_available, gitlab, config, projects, fs, root_exists, group_exists,
                   run, pc, attempt, last_error, future, policy, calls, seen,
                   results, summary, prev, excluded_results, worker, touched,
                   interrupted, git_credentials, writers, credentials_before,
                   discovery>>

\* ------------------------------------------- git_operations.py credential store
\* _store_credential, run by several workers at once on the one file
\* ~/.git-credentials.  The call is three steps: the existing lines are read
\* and the new line is added to them in memory; the file is opened for
\* writing, which truncates it; the merged lines are written.  No lock is
\* taken between the steps.
StoreRead(w) ==
    /\ writers[w].pc = "start"
    /\ writers' = [writers EXCEPT ![w].pc = "merged",
                                  ![w].existing = git_credentials \cup {writers[w].line}]
    /\ UNCHANGED <<git_available, gitlab, exit_code, config, projects, fs, root_exists,
                   group_exists, run, phase, pc, attempt, last_error, future,
                   policy, calls, seen, results, summary, prev, excluded_results,
                   worker, touched, interrupted, git_credentials,
                   credentials_before, discovery>>

StoreOpen(w) ==
    /\ writers[w].pc = "merged"
    /\ writers' = [writers EXCEPT ![w].pc = "opened"]
    /\ git_credentials' = {}
    /\ UNCHANGED <<git_available, gitlab, exit_code, config, projects, fs, root_exists,
                   group_exists, run, phase, pc, attempt, last_error, future,
                   policy, calls, seen, results, summary, prev, excluded_results,
                   worker, touched, interrupted, credentials_before, discovery>>

StoreWrite(w) ==
    /\ writers[w].pc = "opened"
    /\ writers' = [writers EXCEPT ![w].pc = "done"]
    /\ git_credentials' = writers[w].existing
    /\ UNCHANGED <<git_available, gitlab, exit_code, config, projects, fs, root_exists,
                   group_exists, run, phase, pc, attempt, last_error, future,
                   policy, calls, seen, results, summary, prev, excluded_results,
                   worker, touched, interrupted, credentials_before, discovery>>

\* ------------------------------------------------ gitlab_api.py discovery
\* The GitLab instance: the group an identifier resolves to (0: not
\* found), and the projects the API lists for a group, subgroups included.
\* Group 2 is a subgroup of group 1; the listing of group 3 repeats a
\* project, as a paginated listing can.
resolve_group(identifier) ==
    CASE identifier = "1" -> 1
      [] identifier = "top" -> 1
      [] identifier = "2" -> 2
      [] identifier = "top/sub" -> 2
      [] identifier = "3" -> 3
      [] OTHER -> 0

GroupListing(group_id) ==
    CASE group_id = 1 -> <<1, 2, 3>>
      [] group_id = 2 -> <<2, 3>>
      [] group_id = 3 -> <<4, 4>>
      [] OTHER -> <<>>

\* get_all_projects_fast: the listing, or nothing when the API call fails.
get_all_projects_fast(group_id, api) ==
    IF api = "ok" THEN GroupListing(group_id) ELSE <<>>

\* {p.id: p for p in all_projects}.values(): one entry per id, in the order
\* of the first occurrences.
RECURSIVE UniqueById(_, _)
UniqueById(list, ids) ==
    IF list = <<>> THEN <<>>
    ELSE IF Head(list) \in ids THEN UniqueById(Tail(list), ids)
    ELSE <<Head(list)>> \o UniqueById(Tail(list), ids \cup {Head(list)})

\* The loop body that scans a group again when its id was already
\* processed.
AlreadyProcessed_never(d, group_id) == FALSE

AlreadyProcessed(d, group_id) == group_id \in d.processed_group_ids

\* One iteration of the loop over group_identifiers.
DiscoverGroup ==
    /\ ~discovery.returned
    /\ discovery.i <= Len(discovery.identifiers)
    /\ LET identifier == discovery.identifiers[discovery.i]
           group_id == resolve_group(identifier)
           next == [discovery EXCEPT !.i = @ + 1]
       IN IF group_id = 0
          THEN discovery' = [next EXCEPT !.skipped = @ \cup {identifier}]
          ELSE IF AlreadyProcessed(discovery, group_id)
          THEN discovery' = next
          ELSE \E api \in {"ok", "error"} :
                 discovery' = [next EXCEPT
                     !.processed_group_ids = @ \cup {group_id},
                     !.scans = Append(@, group_id),
                     !.all_projects = @ \o get_all_projects_fast(group_id, api)]
    /\ UNCHANGED <<git_available, gitlab, exit_code, config, projects, fs, root_exists,
                   group_exists, run, phase, pc, attempt, last_error, future,
                   policy, calls, seen, results, summary, prev, excluded_results,
                   worker, touched, interrupted, git_credentials, writers,
                   credentials_before>>

\* The loop is over: the combined list is deduplicated and returned.
DiscoverReturn ==
    /\ ~discovery.returned
    /\ discovery.i > Len(discovery.identifiers)
    /\ discovery' = [discovery EXCEPT
                        !.returned = TRUE,
                        !.unique_projects = UniqueById(discovery.all_projects, {})]
    /\ UNCHANGED <<git_available, gitlab, exit_code, config, projects, fs, root_exists,
                   group_exists, run, phase, pc, attempt, last_error, future,
                   policy, calls, seen, results, summary, prev, excluded_results,
                   worker, touched, interrupted, git_credentials, writers,
                   credentials_before>>

\* One call of sync_groups.
Next ==
    \/ SyncGroupsStart
    \/ \E p \in projects : WorkerStart(p)
    \/ \E p \in projects : CloneAttempt(p)
    \/ \E p \in projects : UpdateAttempt(p)
    \/ \E p \in projects : Collect(p)
    \/ SyncGroupsReturn

\* The command run again and again on the same tree.
NextRuns ==
    \/ SyncGroupsStart
    \/ \E p \in projects : WorkerStart(p)
    \/ \E p \in projects : CloneAttempt(p)
    \/ \E p \in projects : UpdateAttempt(p)
    \/ \E p \in projects : Collect(p)
    \/ SyncGroupsReturn
    \/ NextRun

\* One run of the sync command, from its start to its exit status, with
\* the user's interrupt.
NextCmd ==
    \/ SyncGroupsStart
    \/ \E p \in projects : WorkerStart(p)
    \/ \E p \in projects : CloneAttempt(p)
    \/ \E p \in projects : UpdateAttempt(p)
    \/ \E p \in projects : Collect(p)
    \/ SyncGroupsReturn
    \/ Interrupt
    \/ SyncCmdAbort
    \/ SyncCmdExit

\* Concurrent calls of _store_credential.
NextStore ==
    \/ \E w \in DOMAIN writers : StoreRead(w)
    \/ \E w \in DOMAIN writers : StoreOpen(w)
    \/ \E w \in DOMAIN writers : StoreWrite(w)

\* One call of discover_all_projects.
NextDiscovery ==
    \/ DiscoverGroup
    \/ DiscoverReturn

\* One run over several projects: the pool and the collector.
Spec == Init /\ [][Next]_vars

\* Consecutive runs over one project, in every local state and under every
\* configuration.
SpecProject == InitProject /\ [][NextRuns]_vars

\* Consecutive runs over one project under the default options.
SpecDefault == InitDefault /\ [][NextRuns]_vars

\* One run over several discovered projects with include / exclude filters.
SpecGroups == InitGroups /\ [][Next]_vars

\* The sync command over several projects, interrupt and exit status.
SpecCmd == InitCmd /\ [][NextCmd]_vars

\* Several workers storing a credential at the same time.
SpecStore == InitStore /\ [][NextStore]_vars

\* Discovery over every list of group identifiers.
SpecDiscovery == InitDiscovery /\ [][NextDiscovery]_vars

\* One run over one project whose path holds any repository.
SpecMatch == InitMatch /\ [][Next]_vars

\* One run over two sibling projects whose clones and updates retry.
SpecRetry == InitRetry /\ [][Next]_vars

\* One run over several discovered projects, every pair of pattern lists.
SpecFilter == InitFilter /\ [][Next]_vars

\* The sync command with max_workers loaded from its sources.
SpecWorkers == InitWorkers /\ [][NextCmd]_vars

\* WorkerStart(p) can take place: its guard, which is all that enables it.
WorkerStartEnabled(p) ==
    /\ phase = "pool"
    /\ pc[p] = "queued"
    /\ \A q \in projects : q < p => pc[q] # "queued"
    /\ FreeWorkers(config, {worker[q] : q \in Running}) # {}

\* One run under the scheduling the code relies on: the main thread runs,
\* every thread that holds a project runs, every transport call and every
\* backoff sleep comes to an end (weak fairness of each step), and the
\* pool gives a queued project to a free thread (weak fairness of
\* WorkerStart, written out with its guard).
Fairness ==
    /\ WF_vars(SyncGroupsStart)
    /\ WF_vars(SyncGroupsReturn)
    /\ \A p \in RetryProjects :
         /\ WF_vars(CloneAttempt(p))
         /\ WF_vars(UpdateAttempt(p))
         /\ WF_vars(Collect(p))
         /\ ([]<>(~WorkerStartEnabled(p)) \/ []<><<WorkerStart(p)>>_vars)

SpecLive == InitLive /\ [][Next]_vars /\ Fairness

\* One run over two projects cloned over http or ssh.
SpecAskpass == InitAskpass /\ [][Next]_vars

TypeOK ==
    /\ phase \in {"init", "pool", "done", "fatal", "exited"}
    /\ run \in 1..MaxRuns
    /\ \A p \in projects : pc[p] \in {"queued", "cloning", "updating", "finished", "collected"}

\* ================================================================ claims
ResultsFor(p) == {i \in 1..Len(results) : results[i].id = p}

\* The worker of p failed: sync_project raised, or its clone / update
\* reported failure (retries exhausted or an unexpected exception).
FailedWorker(p) ==
    /\ future[p].done
    /\ \/ future[p].raised
       \/ future[p].error_message.kind \in {"exhausted", "unexpected"}

\* The recent-fetch rule applies to the repository sync_project inspected.
RecentlyFetched(p) ==
    /\ config.skip_recent_hours > 0
    /\ seen[p].fetch_head.exists
    /\ seen[p].fetch_head.age < config.skip_recent_hours

\* C1: when the parallel reconciliation of M projects with distinct ids has
\* returned, the result list holds exactly M results, exactly one per
\* project id, whatever the pool size and the completion order.
C1_ExactlyOneResultPerProject ==
    phase = "done" =>
        /\ Len(results) = Cardinality(projects)
        /\ \A p \in projects : Cardinality(ResultsFor(p)) = 1

\* C2: a project whose sync_project raised or whose clone / update failed
\* ends with an error result carrying the error text; every other project
\* still gets the result its worker produced; a failed project holds no
\* worker of the pool, and the run returns a summary counting the errors.
C2_FailureIsolated ==
    /\ \A p \in projects :
         (pc[p] = "collected" /\ FailedWorker(p)) =>
            /\ future[p].error_message.kind # "none"
            /\ \E i \in ResultsFor(p) :
                 results[i] = SyncResult(p, ERROR, future[p].error_message)
    /\ \A p \in projects :
         (pc[p] = "collected" /\ ~future[p].raised) =>
            \E i \in ResultsFor(p) :
                 results[i] = SyncResult(p, future[p].status, future[p].error_message)
    /\ \A p \in projects : FailedWorker(p) => p \notin Running
    /\ phase = "done" =>
         /\ \A p \in projects : pc[p] = "collected"
         /\ summary.total_projects = Len(results)
         /\ summary.errors >= Cardinality({p \in projects : FailedWorker(p)})

\* C2 witness: the run returned although one project raised during its
\* inspection; a sibling was cloned and has its own result.
C2_Witness ==
    /\ phase = "done"
    /\ \E p, q \in projects :
         /\ p # q
         /\ future[p].raised
         /\ future[q].status = CLONED
         /\ \E i \in ResultsFor(q) : results[i].status = CLONED

\* The target path of p is a conflict: a plain directory, or a repository
\* whose origin is not the project's (or that has no origin).
Conflict(p) ==
    \/ seen[p].kind = "plain"
    \/ seen[p].kind = "repo" /\ seen[p].origin \in {ForeignUrl, NoUrl}

\* C3: for a conflicting target path sync_project issues no clone, fetch,
\* pull, mkdir or deletion, leaves the path as it found it, and returns
\* status ignored.
C3_ConflictIgnored ==
    \A p \in projects :
        Conflict(p) =>
            /\ fs[p] = seen[p]
            /\ calls[p] = NoCalls
            /\ pc[p] \notin {"cloning", "updating"}
            /\ future[p].done => (~future[p].raised /\ future[p].status = IGNORED)

\* C3 witness: a foreign repository was inspected and reported ignored.
C3_Witness ==
    \E p \in projects :
        /\ pc[p] = "collected"
        /\ seen[p] = ForeignRepo
        /\ future[p].status = IGNORED

\* C4: the command is run twice in a row on the same tree with the same
\* configuration and remote (a real run: a dry run clones nothing).  No
\* project that the first run reported cloned or updated is reported cloned
\* or updated by the second run.
C4_SecondRunIdempotent ==
    (run = 2 /\ phase = "done" /\ ~config.dry_run) =>
        \A p \in projects :
            (prev[p] \cap {CLONED, UPDATED} # {}) =>
                future[p].status \notin {CLONED, UPDATED}

\* C5: in a dry run no step creates or changes anything under the root
\* directory (the root directory, the namespace directory, any project
\* path), no clone, fetch, pull, mkdir or rmtree is issued, no retry loop
\* is entered, and a clone or update that was decided returns success.
C5_DryRunPure ==
    [][config.dry_run =>
          /\ fs' = fs
          /\ root_exists' = root_exists
          /\ group_exists' = group_exists
          /\ \A p \in projects :
               /\ calls'[p] = NoCalls
               /\ attempt'[p] = 0
               /\ pc'[p] \notin {"cloning", "updating"}
               /\ (future'[p].done /\ seen'[p].kind = "absent") =>
                     future'[p] = Returned(CLONED, NoMsg)
               /\ (future'[p].done /\ seen'[p].kind = "repo"
                      /\ seen'[p].origin = TokenUrl(p)) =>
                     future'[p] = Returned(ALREADY_UP_TO_DATE, NoMsg)]_vars

\* C5 witness: a dry run over an empty tree returned; the project is
\* reported cloned and neither its path nor the root directory exists.
C5_Witness ==
    /\ config.dry_run
    /\ phase = "done"
    /\ ~root_exists
    /\ \E p \in projects :
         /\ fs[p].kind = "absent"
         /\ \E i \in ResultsFor(p) : results[i].status = CLONED

\* Transport calls (clone, fetch, pull) issued for p in this run.
TransportCalls(p) == calls[p].clone + calls[p].fetch + calls[p].pull

\* C6 as stated: with max_retries = N the transport is invoked at most N+1
\* times for one project in one run.
C6_TransportCallsBounded ==
    \A p \in projects : TransportCalls(p) <= config.max_retries + 1

\* C6 amended: the retry loop of a clone or an update makes at most N+1
\* attempts, stops at its first success, and on exhaustion returns failure
\* with the message of the last attempt; a clone therefore issues at most
\* N+1 transport calls and a pull at most N+1, and the fetch calls of an
\* update are at most N+1 plus the one fetch of the smart staleness check.
C6_RetryLoopBounded ==
    \A p \in projects :
        /\ attempt[p] <= config.max_retries + 1
        /\ calls[p].clone <= config.max_retries + 1
        /\ calls[p].pull <= config.max_retries + 1
        /\ calls[p].fetch <= config.max_retries + 1
                               + (IF policy[p].probe # "none" THEN 1 ELSE 0)
        /\ TransportCalls(p) = attempt[p] + (IF policy[p].probe # "none" THEN 1 ELSE 0)
        /\ (pc[p] \in {"cloning", "updating"} /\ attempt[p] > 0) =>
              last_error[p] = ErrorOfAttempt(attempt[p])
        /\ future[p].status \in {CLONED, UPDATED} => pc[p] \in {"finished", "collected"}
        /\ future[p].error_message.kind = "exhausted" =>
              /\ future[p].status = ERROR
              /\ attempt[p] = config.max_retries + 1
              /\ future[p].error_message.detail = ErrorOfAttempt(attempt[p])

\* C6 witness: an update whose attempts all failed after the smart check
\* had fetched: N+2 fetch calls, N+1 of them from the retry loop.
C6_Witness ==
    \E p \in projects :
        /\ future[p].error_message.kind = "exhausted"
        /\ policy[p].probe = "ok"
        /\ attempt[p] = config.max_retries + 1
        /\ calls[p].fetch = config.max_retries + 2

\* The outcome the four cases of determine_project_action give for a
\* local state.
ExpectedAction(local) ==
    IF local.kind = "absent" THEN TO_CLONE
    ELSE IF local.kind = "repo" /\ local.origin \notin {ForeignUrl, NoUrl}
    THEN ALREADY_UP_TO_DATE
    ELSE IGNORED

\* C7 as stated: determine_project_action is total: for every local state
\* a worker inspected it returned the one of the four outcomes that the
\* state calls for.
C7_ActionIsTotal ==
    \A p \in projects :
        pc[p] # "queued" =>
            determine_project_action(p, seen[p]) = ExpectedAction(seen[p])

\* C7 amended: in every local state that can be inspected
\* determine_project_action returns the one outcome the state calls for;
\* for a path that cannot be read it raises instead, the worker's future
\* carries the exception, and nothing on disk was changed or called.
C7_ActionByLocalState ==
    \A p \in projects :
        /\ fs[p].kind # "unreadable" =>
              determine_project_action(p, fs[p]) = ExpectedAction(fs[p])
        /\ fs[p].kind = "unreadable" => determine_project_action(p, fs[p]) = "raise"
        /\ future[p].raised <=> (future[p].done /\ seen[p].kind = "unreadable")
        /\ future[p].raised => (fs[p] = seen[p] /\ calls[p] = NoCalls)
        /\ (future[p].done /\ seen[p].kind = "plain") =>
              (future[p].status = IGNORED /\ fs[p] = seen[p])

\* C7 witness: the inspection of an unreadable path raised and the
\* collector recorded it.
C7_Witness ==
    \E p \in projects :
        /\ pc[p] = "collected"
        /\ future[p].raised
        /\ seen[p].kind = "unreadable"
        /\ \E i \in ResultsFor(p) : results[i].status = ERROR

\* C8: when skip_recent_hours > 0 and the repository was fetched less than
\* that many hours ago, the staleness check answers no-update with the
\* recent-fetch reason whatever the dirty and detached state, no fetch or
\* pull is issued, the repository is left as found and the update returns
\* success without change; a never-fetched repository is never skipped by
\* this rule.
C8_RecentFetchSkips ==
    \A p \in projects :
        /\ (policy[p].evaluated /\ RecentlyFetched(p)) =>
              /\ ~policy[p].needs_update
              /\ policy[p].reason = "fetch_recent"
              /\ calls[p] = NoCalls
              /\ fs[p] = seen[p]
              /\ future[p] = Returned(ALREADY_UP_TO_DATE, Msg("reason", "fetch_recent"))
        /\ (policy[p].evaluated /\ ~seen[p].fetch_head.exists) =>
              policy[p].reason # "fetch_recent"

\* C8 witness: a dirty repository with a detached HEAD, fetched recently,
\* was skipped by the recent-fetch rule.
C8_Witness ==
    \E p \in projects :
        /\ policy[p].evaluated
        /\ RecentlyFetched(p)
        /\ seen[p].dirty = "dirty"
        /\ seen[p].detached
        /\ future[p].status = ALREADY_UP_TO_DATE

EvaluationFailed(p) ==
    /\ policy[p].evaluated
    /\ \/ seen[p].dirty = "error" /\ ~RecentlyFetched(p)
       \/ policy[p].probe \in {"fetch_failed", "count_failed"}

\* C10: when a step of the staleness evaluation fails, the check answers
\* update needed.
C10_FailOpen ==
    \A p \in projects : EvaluationFailed(p) => policy[p].needs_update

\* The excluded results recorded for project p.
ExcludedFor(p) == {i \in 1..Len(excluded_results) : excluded_results[i].id = p}

\* Project p was never handed to a worker: nothing inspected, called,
\* touched or produced for it.
NeverProcessed(p) ==
    /\ pc[p] = "queued"
    /\ worker[p] = 0
    /\ future[p] = Pending
    /\ calls[p] = NoCalls
    /\ touched[p] = {}
    /\ ~policy[p].evaluated
    /\ fs[p] = seen[p]
    /\ ResultsFor(p) = {}

\* C11: once the discovered projects are filtered, every one of them is
\* either recorded as exactly one excluded result and never submitted, or
\* submitted to the pool with no excluded result; for an excluded project
\* nothing is inspected, cloned, fetched or touched on disk, and a
\* submitted project gets its result from the pool.
C11_FilterPartition ==
    phase \in {"pool", "done"} =>
        \A p \in DOMAIN fs :
            \/ /\ p \notin projects
               /\ Cardinality(ExcludedFor(p)) = 1
               /\ \A i \in ExcludedFor(p) : excluded_results[i].status = EXCLUDED
               /\ NeverProcessed(p)
            \/ /\ p \in projects
               /\ ExcludedFor(p) = {}
               /\ phase = "done" => ResultsFor(p) # {}

\* C11 witness: a run with filters ended; one project was excluded and its
\* absent path is still absent, another one was cloned by the pool.
C11_Witness ==
    /\ phase = "done"
    /\ \E p \in DOMAIN fs :
         /\ p \notin projects
         /\ ExcludedFor(p) # {}
         /\ fs[p] = Absent
    /\ \E q \in projects : \E i \in ResultsFor(q) : results[i].status = CLONED

\* The rule of the include gate and the exclude list, stated on the
\* pattern lists.
ExclusionRule(cfg, p) ==
    \/ /\ cfg.include_patterns # <<>>
       /\ \A i \in 1..Len(cfg.include_patterns) :
            ~fnmatch(path_with_namespace(p), cfg.include_patterns[i])
    \/ \E j \in 1..Len(cfg.exclude_patterns) :
            fnmatch(path_with_namespace(p), cfg.exclude_patterns[j])

\* C12: is_project_excluded is true exactly when the include list is not
\* empty and the path matches none of its patterns, or the path matches an
\* exclude pattern; with no patterns nothing is excluded; the projects the
\* filtering loop keeps out of the pool are exactly the excluded ones.
C12_ExclusionRule ==
    \A p \in DOMAIN fs :
        /\ is_project_excluded(config, p) <=> ExclusionRule(config, p)
        /\ (config.include_patterns = <<>> /\ config.exclude_patterns = <<>>) =>
              ~is_project_excluded(config, p)
        /\ (phase \in {"pool", "done"} /\ run = 1) =>
              (p \notin projects <=> ExclusionRule(config, p))

\* C12 witness: a project that matches an include pattern and an exclude
\* pattern was filtered out, while another one passed both lists.
C12_Witness ==
    /\ phase \in {"pool", "done"}
    /\ config.include_patterns # <<>>
    /\ \E p \in DOMAIN fs :
         /\ p \notin projects
         /\ FirstMatch(path_with_namespace(p), config.include_patterns, 1) # 0
         /\ FirstMatch(path_with_namespace(p), config.exclude_patterns, 1) # 0
    /\ projects # {}

\* C13: the success rate of the returned summary is
\* (cloned + updated + already_up_to_date) / (total_projects - excluded) * 100
\* when the denominator is not zero and 100 when it is; it is the rate of
\* the pool's results alone, so excluded projects do not lower it.
C13_SuccessRate ==
    phase = "done" =>
        LET rate == success_rate(summary)
            attempted == summary.total_projects - summary.excluded
            successful == summary.cloned + summary.updated + summary.already_up_to_date
        IN /\ attempted # 0 => rate.num * attempted = successful * 100 * rate.den
           /\ attempted = 0 => FractionEq(rate, Fraction(100, 1))
           /\ FractionEq(rate, success_rate(_build_summary(results)))

\* C13 witness: a run ended with one project excluded and every attempted
\* project successful: the rate is 100 although not every project of the
\* summary succeeded.
C13_Witness ==
    /\ phase = "done"
    /\ summary.excluded > 0
    /\ summary.cloned > 0
    /\ summary.total_projects > summary.cloned + summary.updated + summary.already_up_to_date
    /\ FractionEq(success_rate(summary), Fraction(100, 1))

\* The list has no element twice.
NoRepeats(list) == \A i, j \in 1..Len(list) : i # j => list[i] # list[j]

ElementsOf(list) == {list[i] : i \in 1..Len(list)}

\* The identifiers the discovery loop has gone through.
ProcessedIdentifiers ==
    {discovery.identifiers[k] : k \in 1..(discovery.i - 1)}

\* C14: whatever the list of group identifiers, discovery scans each
\* resolved group id at most once, skips every identifier that does not
\* resolve and goes on with the next one, and returns, after the last
\* identifier, a list holding every discovered project id exactly once.
C14_DiscoveryDedup ==
    /\ NoRepeats(discovery.scans)
    /\ \A identifier \in ProcessedIdentifiers :
         IF resolve_group(identifier) = 0
         THEN identifier \in discovery.skipped
         ELSE resolve_group(identifier) \in ElementsOf(discovery.scans)
    /\ discovery.returned =>
         /\ discovery.i = Len(discovery.identifiers) + 1
         /\ NoRepeats(discovery.unique_projects)
         /\ ElementsOf(discovery.unique_projects) = ElementsOf(discovery.all_projects)

\* C14 witness: a discovery returned after an identifier that did not
\* resolve, two identifiers of the same group, and listings that held a
\* project more than once.
C14_Witness ==
    /\ discovery.returned
    /\ discovery.skipped # {}
    /\ Len(discovery.scans) + Cardinality(discovery.skipped) < Len(discovery.identifiers)
    /\ Len(discovery.unique_projects) < Len(discovery.all_projects)

\* C15: at every moment of the pool phase at most max_workers projects are
\* being processed, each on a pool thread of its own, and a project that
\* was started stays on the thread that started it until its end: it is
\* never queued again and never moves to another thread.
C15_BoundedParallelism ==
    /\ [](/\ Cardinality(Running) <= config.max_workers
          /\ \A p \in Running : worker[p] \in 1..config.max_workers
          /\ \A p, q \in Running : p # q => worker[p] # worker[q])
    /\ [][\A p \in DOMAIN fs :
            pc[p] # "queued" => (pc'[p] # "queued" /\ worker'[p] = worker[p])]_vars

\* C15 witness: every thread of the pool is busy with a clone or update
\* while a submitted project is still waiting for a thread.
C15_Witness ==
    /\ phase = "pool"
    /\ Cardinality(Running) = config.max_workers
    /\ \E p \in projects : pc[p] = "queued"

\* The path lies in the subtree of project p.
InSubtree(path, p) == IsPrefix(get_local_path(p), path)

\* C16 as stated: the local paths of the projects are pairwise distinct,
\* each worker touches only paths inside the subtree of its own project,
\* and no path is touched by the workers of two projects.
C16_NoSharedPath ==
    \A p, q \in DOMAIN fs :
        /\ \A path \in touched[p] : InSubtree(path, p)
        /\ p # q =>
             /\ get_local_path(p) # get_local_path(q)
             /\ touched[p] \cap touched[q] = {}

\* C16: the local paths of the projects are pairwise distinct and none
\* lies inside another; outside the subtree of its project a worker touches
\* only the ancestor directories of its target path, which it creates
\* before a clone, and the temporary askpass script of its own clone; the
\* only paths two workers both touch are such ancestor directories, and
\* only when both clone.
C16_SubtreesDisjoint ==
    \A p, q \in DOMAIN fs :
        /\ \A path \in touched[p] :
             \/ InSubtree(path, p)
             \/ /\ IsPrefix(path, Parent(get_local_path(p)))
                /\ calls[p].mkdir > 0
             \/ /\ path = AskpassScript(p)
                /\ calls[p].mkdir > 0
        /\ p # q =>
             /\ ~IsPrefix(get_local_path(p), get_local_path(q))
             /\ \A path \in touched[p] \cap touched[q] :
                  /\ IsPrefix(path, Parent(get_local_path(p)))
                  /\ IsPrefix(path, Parent(get_local_path(q)))
                  /\ calls[p].mkdir > 0
                  /\ calls[q].mkdir > 0

\* C16 witness: two workers clone two projects of the same namespace at
\* the same time; both went through the namespace directory.
C16_Witness ==
    \E p, q \in Running :
        /\ p # q
        /\ pc[p] = "cloning"
        /\ pc[q] = "cloning"
        /\ Parent(get_local_path(p)) \in touched[p] \cap touched[q]

\* C17: when several workers store a credential at the same time, no
\* worker reads the file while another one has truncated it, and once all
\* of them are done the file holds every line it held before and every
\* line a worker added.
C17_NoCredentialLost ==
    /\ \A w \in DOMAIN writers :
         writers[w].pc # "start" => credentials_before \subseteq writers[w].existing
    /\ (\A w \in DOMAIN writers : writers[w].pc = "done") =>
         /\ credentials_before \subseteq git_credentials
         /\ \A w \in DOMAIN writers : writers[w].line \in git_credentials

\* Project p was cloned over HTTP by this run.
ClonedOverHttp(p) ==
    /\ config.clone_method = "http"
    /\ calls[p].clone > 0
    /\ future[p] = Returned(CLONED, NoMsg)

\* C18: after a successful HTTP clone the origin URL of the new repository
\* holds no credentials, the repository has the credential helper
\* configured, and the credential store holds a line for the host.
C18_CredentialInstalled ==
    \A p \in projects :
        ClonedOverHttp(p) =>
            /\ ~HasCredentials(fs[p].origin)
            /\ fs[p].credential_helper
            /\ CredentialLine(fs[p].origin) \in git_credentials

\* C19: once the interrupt has arrived, no project that is still waiting
\* in the pool is started; the projects being processed finish or fail,
\* and the command exits with the interrupt status.
C19_NoStartAfterInterrupt ==
    [][/\ interrupted =>
            \A p \in DOMAIN fs : pc[p] = "queued" => pc'[p] = "queued"
       /\ (interrupted /\ exit_code' # NoExit) => exit_code' = 130]_vars

\* Some project of the run ended in error.
SomeProjectFailed ==
    \E i \in 1..Len(results) : results[i].status = ERROR

\* C20: the sync command exits with 130 when it was interrupted, with 1
\* when the run failed fatally or at least one project ended in error, and
\* with 0 when the run completed without any error, whatever the number of
\* ignored and excluded projects.
C20_ExitCode ==
    exit_code # NoExit =>
        exit_code = IF interrupted THEN 130
                    ELSE IF ~git_available \/ gitlab # "ok" THEN 1
                    ELSE IF SomeProjectFailed THEN 1
                    ELSE 0

\* C20 witness: the command exited with 0 after a run that excluded one
\* project and ignored another.
C20_Witness ==
    /\ exit_code = 0
    /\ summary.excluded > 0
    /\ summary.ignored > 0

\* C21: a run aborted by a configuration error, an authentication failure
\* or a connectivity failure (one raised during discovery included) has
\* made no filesystem change when it aborts: the root directory was not
\* created and no project path was touched.
C21_AbortBeforeMutation ==
    [][(phase # "fatal" /\ phase' = "fatal" /\ gitlab # "ok") =>
          /\ root_exists' = root_exists
          /\ group_exists' = group_exists
          /\ fs' = fs
          /\ touched' = touched]_vars

\* The staleness policy would ask for an update of the repository p's
\* worker inspected, were the run not a dry run.
WouldUpdate(p) ==
    /\ matches_project(seen[p], p)
    /\ config.update_existing
    /\ check_if_behind_remote(seen[p], config, "ok").needs_update

\* C22: in a dry run every project that needs action reports its
\* prospective status: a project that would be cloned reports cloned, and a
\* matching repository that would be updated reports updated, not
\* already-up-to-date.
C22_DryRunProspectiveStatus ==
    \A p \in projects :
        (config.dry_run /\ future[p].done /\ ~future[p].raised) =>
            /\ seen[p].kind = "absent" => future[p].status = CLONED
            /\ WouldUpdate(p) => future[p].status = UPDATED

\* C23: matches_project is true exactly when the path is a valid repository
\* whose origin URL is one of the writings of the project's http or ssh URL:
\* with or without embedded credentials, a trailing slash, the .git suffix,
\* in either letter case.  A remote that embeds a token matches, and
\* normalize("https://oauth2:T@h/g/p.git") = normalize("https://h/g/p").
C23_MatchesProject ==
    /\ \A p \in projects :
          /\ matches_project(fs[p], p) <=>
                (fs[p].kind = "repo" /\ fs[p].origin \in SameProjectUrls(p))
          /\ (future[p].done /\ ~future[p].raised /\ seen[p].kind # "absent") =>
                (future[p].status # IGNORED <=>
                    (seen[p].kind = "repo" /\ seen[p].origin \in SameProjectUrls(p)))
    /\ _normalize_url(TokenUrl(1)) = _normalize_url(HttpVariant(1, <<>>, "h", "g", <<>>))
    /\ _normalize_url(TokenUrl(1)) = <<"https", "://", "h", "/", "g", "/", "p1">>

\* C23 witness: a repository whose origin embeds a token was matched with
\* its project and updated.
C23_Witness ==
    \E p \in projects :
        /\ pc[p] = "collected"
        /\ seen[p].kind = "repo"
        /\ seen[p].origin = TokenUrl(p)
        /\ future[p].status = UPDATED

\* The http URL of a project with "oauth2:<token>@" inserted right after
\* "https://".
WithToken(url, token) ==
    <<url[1], url[2], IF token = "T" THEN "oauth2:T" ELSE "oauth2:", "@">>
        \o SubSeq(url, 3, Len(url))

\* C24: get_clone_url returns the ssh URL when clone_method is ssh, the http
\* URL with "oauth2:<token>@" inserted after "https://" when clone_method
\* is http and a token is configured, and the plain http URL when the
\* token is empty.
C24_CloneUrl ==
    \A p \in projects :
        pc[p] = "cloning" =>
            get_clone_url(config, p) =
                IF config.clone_method = "ssh" THEN ssh_url_to_repo(p)
                ELSE IF config.token # "" THEN WithToken(http_url_to_repo(p), config.token)
                ELSE http_url_to_repo(p)

\* The commits reachable from the remote-tracking ref of the current
\* branch and not from the local HEAD.
CommitsBehind(local) ==
    IF local.tracking > local.head THEN local.tracking - local.head ELSE 0

\* The staleness policy was evaluated for a clean repository with an
\* attached HEAD that the recent-fetch rule does not cover, and no update
\* attempt has run since.
CleanAttachedChecked(p) ==
    /\ policy[p].evaluated
    /\ attempt[p] = 0
    /\ seen[p].kind = "repo"
    /\ seen[p].dirty = "clean"
    /\ ~seen[p].detached
    /\ ~RecentlyFetched(p)

\* C25: for a clean repository with an attached HEAD outside the
\* recent-fetch rule, the smart policy refreshes the remote refs and reports
\* update needed exactly when the remote-tracking ref is ahead of the local
\* HEAD by more than 0 commits, commits_behind being that number; with
\* smart-update disabled the policy always reports update needed.
C25_SmartStaleness ==
    \A p \in projects :
        CleanAttachedChecked(p) =>
            IF config.smart_update
            THEN /\ calls[p].fetch = 1
                 /\ policy[p].commits_behind = CommitsBehind(fs[p])
                 /\ policy[p].needs_update <=> CommitsBehind(fs[p]) > 0
            ELSE /\ policy[p].needs_update
                 /\ calls[p].fetch = 0

\* The staleness policy was evaluated for a clean repository with a
\* detached HEAD that the recent-fetch rule does not cover.
CleanDetachedChecked(p) ==
    /\ policy[p].evaluated
    /\ seen[p].kind = "repo"
    /\ seen[p].dirty = "clean"
    /\ seen[p].detached
    /\ ~RecentlyFetched(p)

\* C26: for a clean repository with a detached HEAD outside the recent-fetch
\* rule, the policy reports update needed without counting commits, in
\* smart and in non-smart mode, and the update that follows only fetches:
\* no pull, whatever fetch_only is, and the local HEAD stays where it was.
C26_DetachedFetchOnly ==
    \A p \in projects :
        CleanDetachedChecked(p) =>
            /\ policy[p].needs_update
            /\ policy[p].reason = "detached_head"
            /\ policy[p].probe = "none"
            /\ policy[p].commits_behind = 0
            /\ calls[p].pull = 0
            /\ calls[p].fetch = attempt[p]
            /\ fs[p].head = seen[p].head
            /\ fs[p].detached
            /\ pc[p] \in {"updating", "finished", "collected"}

\* C26 witness: a detached repository behind the remote was updated with
\* fetch_only off and smart mode on: one fetch, no pull.
C26_Witness ==
    \E p \in projects :
        /\ CleanDetachedChecked(p)
        /\ ~config.fetch_only
        /\ config.smart_update
        /\ seen[p].head < RemoteHead
        /\ future[p].status = UPDATED
        /\ calls[p].fetch = 1
        /\ fs[p].tracking = RemoteHead

\* C27: an update pulls only when fetch_only is false and HEAD is attached;
\* in every other case, and always under the default configuration
\* (fetch_only on), the update is a fetch: it moves the remote-tracking ref
\* and leaves the local branch and the working tree as they were.
C27_PullOnlyWhenConfigured ==
    \A p \in projects :
        /\ calls[p].pull > 0 => (~config.fetch_only /\ ~seen[p].detached)
        /\ (seen[p].kind = "repo" /\ (config.fetch_only \/ seen[p].detached)) =>
              /\ calls[p].pull = 0
              /\ fs[p].head = seen[p].head
              /\ fs[p].dirty = seen[p].dirty
              /\ fs[p].detached = seen[p].detached
              /\ fs[p].origin = seen[p].origin
        /\ ((config.fetch_only \/ seen[p].detached) /\ future[p].status = UPDATED) =>
              /\ calls[p].fetch >= 1
              /\ fs[p].tracking = RemoteHead

\* C27 witness: under fetch_only an attached repository behind the remote
\* was updated: the remote-tracking ref moved, the local branch did not.
C27_Witness ==
    \E p \in projects :
        /\ config.fetch_only
        /\ ~seen[p].detached
        /\ future[p].status = UPDATED
        /\ seen[p].head < RemoteHead
        /\ fs[p].head = seen[p].head
        /\ fs[p].tracking = RemoteHead
        /\ calls[p].pull = 0

\* C28: between consecutive failed attempts of one clone or update the
\* worker waits 2^k seconds after the k-th failed attempt (k = 0, 1, 2, ...):
\* the delays double and strictly increase; there is exactly one wait
\* between two consecutive attempts and none after the last attempt.
C28_BackoffSchedule ==
    \A p \in projects :
        LET delays == calls[p].sleep IN
        /\ \A k \in 1..Len(delays) : delays[k] = 2 ^ (k - 1)
        /\ \A k \in 1..(Len(delays) - 1) :
              delays[k + 1] = 2 * delays[k] /\ delays[k + 1] > delays[k]
        /\ pc[p] \in {"cloning", "updating"} => Len(delays) = attempt[p]
        /\ (pc[p] \in {"finished", "collected"} /\ attempt[p] > 0) =>
              Len(delays) = attempt[p] - 1
        /\ attempt[p] = 0 => delays = <<>>
        /\ Len(delays) <= config.max_retries

\* C28 witness: a clone failed four times in a row and waited 1, 2 and 4
\* seconds, with no wait after the fourth failure.
C28_Witness ==
    \E p \in projects :
        /\ future[p].error_message.kind = "exhausted"
        /\ calls[p].clone = 4
        /\ calls[p].sleep = <<1, 2, 4>>

Synced(p) == future[p].done /\ ~future[p].raised

\* The clone or update of p reported failure.
ReportedFailure(p) == future[p].error_message.kind \in {"exhausted", "unexpected"}

\* C30: the status sync_project returns.  For a missing path: cloned iff
\* the clone succeeded, error otherwise.  For a matching repository:
\* updated iff the update succeeded and changed something, error iff it
\* failed, already-up-to-date iff it succeeded without change or updates
\* are disabled; with updates disabled no staleness check and no transport
\* call is made for the repository.
C30_StatusMapping ==
    \A p \in projects :
        /\ (Synced(p) /\ seen[p].kind = "absent") =>
              /\ future[p].status \in {CLONED, ERROR}
              /\ future[p].status = ERROR <=> ReportedFailure(p)
              /\ future[p].status = CLONED <=>
                    (config.dry_run \/ (calls[p].clone > 0 /\ fs[p].kind = "repo"))
        /\ (Synced(p) /\ matches_project(seen[p], p)) =>
              /\ future[p].status \in {UPDATED, ALREADY_UP_TO_DATE, ERROR}
              /\ future[p].status = ERROR <=> ReportedFailure(p)
              /\ future[p].status = UPDATED <=> (attempt[p] > 0 /\ ~ReportedFailure(p))
              /\ future[p].status = ALREADY_UP_TO_DATE <=>
                    \/ ~config.update_existing
                    \/ config.dry_run
                    \/ (policy[p].evaluated /\ ~policy[p].needs_update)
        /\ (matches_project(seen[p], p) /\ ~config.update_existing) =>
              /\ ~policy[p].evaluated
              /\ calls[p] = NoCalls
              /\ fs[p] = seen[p]
              /\ pc[p] # "updating"

\* C30 witness: with updates disabled a matching repository that is behind
\* the remote was reported already-up-to-date without any check or call.
C30_Witness ==
    \E p \in projects :
        /\ ~config.update_existing
        /\ ~config.dry_run
        /\ pc[p] = "collected"
        /\ matches_project(seen[p], p)
        /\ seen[p].head < RemoteHead
        /\ seen[p].dirty = "clean"
        /\ future[p].status = ALREADY_UP_TO_DATE
        /\ calls[p] = NoCalls

\* No worker has inspected, created or cloned anything for any project.
NothingStarted ==
    \A p \in DOMAIN pc :
        /\ pc[p] = "queued"
        /\ touched[p] = {}
        /\ calls[p] = NoCalls
        /\ future[p] = Pending

\* C31: sync_groups probes git before anything else.  When git does not
\* answer the run fails fatally with the root directory not created, the
\* projects not discovered nor filtered, and no project inspected or
\* cloned.  When git answers, the root directory exists as soon as
\* discovery is entered (even if discovery then fails), unless dry_run is
\* set, in which case it is left as it was.
C31_PreflightOrder ==
    /\ [](phase = "fatal" /\ ~git_available /\ gitlab \in {"ok", "discovery_error"}
             => /\ NothingStarted
                /\ results = <<>> /\ excluded_results = <<>>
                /\ summary = NoSummary)
    /\ [][(phase = "init" /\ phase' \in {"pool", "done", "fatal"}
             /\ gitlab \in {"ok", "discovery_error"}) =>
            IF ~git_available
            THEN /\ phase' = "fatal"
                 /\ UNCHANGED <<root_exists, group_exists, fs, projects,
                                excluded_results, discovery, touched, calls>>
            ELSE /\ root_exists' = (root_exists \/ ~config.dry_run)
                 /\ phase' = "fatal" <=> gitlab = "discovery_error"
                 /\ UNCHANGED <<group_exists, fs, touched, calls>>]_vars

\* C31 witness: git does not answer, the run is fatal and the root
\* directory, absent before the run, is still absent.
C31_Witness ==
    /\ phase = "fatal"
    /\ ~git_available
    /\ gitlab = "ok"
    /\ ~config.dry_run
    /\ ~root_exists
    /\ NothingStarted

\* The number of results of a list that carry a status, counted one result
\* after the other.
RECURSIVE Tally(_, _)
Tally(res, status) ==
    IF res = <<>> THEN 0
    ELSE (IF Head(res).status = status THEN 1 ELSE 0) + Tally(Tail(res), status)

\* The results a returned summary was built from.
AllResults == excluded_results \o results

\* C32: in every summary sync_groups returns, each counter is the number of
\* results with that status, total_projects is the number of results and
\* the sum of the six counters, no result carries to_clone, and the early
\* return taken when no project is included gives the summary the
\* aggregation gives for the excluded results alone.
C32_SummaryAccounting ==
    phase = "done" =>
        /\ summary.cloned = Tally(AllResults, CLONED)
        /\ summary.updated = Tally(AllResults, UPDATED)
        /\ summary.already_up_to_date = Tally(AllResults, ALREADY_UP_TO_DATE)
        /\ summary.ignored = Tally(AllResults, IGNORED)
        /\ summary.excluded = Tally(AllResults, EXCLUDED)
        /\ summary.errors = Tally(AllResults, ERROR)
        /\ summary.total_projects = Len(AllResults)
        /\ summary.total_projects =
             summary.cloned + summary.updated + summary.already_up_to_date
               + summary.ignored + summary.excluded + summary.errors
        /\ \A i \in 1..Len(AllResults) : AllResults[i].status # TO_CLONE
        /\ projects = {} =>
             /\ results = <<>>
             /\ summary = _build_summary(excluded_results)

\* C32 witness: a returned summary that counts one excluded project and
\* one project whose clone failed.
C32_Witness ==
    /\ phase = "done"
    /\ summary.total_projects = 2
    /\ summary.excluded = 1
    /\ summary.errors = 1

\* C32, the early return: every discovered project was excluded and the
\* summary was returned without a pool.
C32_EarlyReturnReached ==
    /\ phase = "done"
    /\ projects = {}
    /\ summary.excluded = NumProjects

\* Some pattern of a list matches the path of the project.
MatchesAny(p, patterns) ==
    \E i \in 1..Len(patterns) : fnmatch(path_with_namespace(p), patterns[i])

\* The pattern of a list that matches the path of the project and has no
\* matching pattern before it.
FirstMatching(p, patterns) ==
    LET i == CHOOSE a \in 1..Len(patterns) :
                 /\ fnmatch(path_with_namespace(p), patterns[a])
                 /\ \A b \in 1..(a - 1) : ~fnmatch(path_with_namespace(p), patterns[b])
    IN patterns[i]

\* C33: the diagnostic of every excluded result is "not included" when
\* include patterns are configured and none matches the path, even if an
\* exclude pattern matches too; otherwise it is the first exclude pattern,
\* in configured order, that matches; and _find_matching_pattern answers
\* "unknown" only for a project that is not excluded.
C33_ExclusionDiagnostic ==
    /\ \A i \in 1..Len(excluded_results) :
         LET r == excluded_results[i] IN
         /\ r.error_message.kind = "excluded"
         /\ r.error_message.detail =
              IF config.include_patterns # <<>>
                 /\ ~MatchesAny(r.id, config.include_patterns)
              THEN "non inclus"
              ELSE FirstMatching(r.id, config.exclude_patterns)
         /\ r.error_message.detail # "unknown"
    /\ \A p \in DOMAIN fs :
         _find_matching_pattern(config, p) = "unknown"
            <=> ~is_project_excluded(config, p)

\* C33 witness: under two exclude patterns and some include patterns, a
\* project that an exclude pattern matches was excluded with the "not
\* included" diagnostic, no include pattern matching it.
C33_Witness ==
    /\ phase = "done"
    /\ \E i \in 1..Len(excluded_results) :
         /\ excluded_results[i].error_message.detail = "non inclus"
         /\ MatchesAny(excluded_results[i].id, config.exclude_patterns)
    /\ config.include_patterns # <<>>
    /\ Len(config.exclude_patterns) = 2

\* C34: the size of the worker pool of a run is within the documented
\* bound 1..32, whichever source set max_workers: class default,
\* environment, TOML file or --threads.
C34_PoolSizeBounded ==
    phase = "pool" =>
        /\ config.max_workers >= 1
        /\ config.max_workers <= 32

\* C35: the collector records one result per collected future, also when
\* the progress callback raises after the result was appended: collecting
\* the future of a project appends exactly one result, the one its worker
\* returned (or the error result of a future that raised), and never a
\* second, error result for the same project.
C35_OneResultPerCollect ==
    [][\A p \in projects :
         (pc[p] = "finished" /\ pc'[p] = "collected") =>
            /\ Len(results') = Len(results) + 1
            /\ SubSeq(results', 1, Len(results)) = results
            /\ results'[Len(results')].id = p
            /\ ~future[p].raised =>
                  results'[Len(results')].status = future[p].status]_vars

\* clone_repository reported a failure for p in the current run.
CloneFailed(p) ==
    /\ future[p].done
    /\ ~future[p].raised
    /\ calls[p].clone > 0
    /\ future[p].status = ERROR

\* C36: whenever clone_repository reports a failure, whatever its cause,
\* nothing is left at the target path, and the following run classifies
\* the project as to-clone again, not as ignored.
C36_FailedCloneLeavesNothing ==
    /\ [](\A p \in projects : CloneFailed(p) => fs[p].kind = "absent")
    /\ [][\A p \in projects :
            (CloneFailed(p) /\ run' = run + 1) =>
                determine_project_action(p, fs'[p]) = TO_CLONE]_vars

\* The fetch or pull of p's update failed on every attempt.
UpdateExhausted(p) ==
    /\ seen[p].kind = "repo"
    /\ future[p].done
    /\ future[p].error_message.kind = "exhausted"
    /\ calls[p].fetch + calls[p].pull > 0

\* C37: when the update of a repository fails on every attempt, the local
\* repository is neither deleted nor cloned again, its origin URL is
\* unchanged, the result is error, and the path is still a repository
\* matching the project, so the next run classifies it as to be updated.
\* While the attempts fail the repository stays in place too.
C37_FailedUpdateKeepsMirror ==
    \A p \in projects :
        /\ pc[p] = "updating" =>
              /\ fs[p].kind = "repo"
              /\ fs[p].origin = seen[p].origin
        /\ UpdateExhausted(p) =>
              /\ fs[p].kind = "repo"
              /\ fs[p].origin = seen[p].origin
              /\ fs[p].head = seen[p].head
              /\ calls[p].clone = 0
              /\ calls[p].rmtree = 0
              /\ calls[p].mkdir = 0
              /\ future[p].status = ERROR
              /\ calls[p].fetch + calls[p].pull >= MaxAttempts(config)
              /\ matches_project(fs[p], p)
              /\ determine_project_action(p, fs[p]) = ALREADY_UP_TO_DATE

\* C37 witness: a pull failed four times on a repository that is still in
\* place with its origin, while the sibling project was cloned.
C37_Witness ==
    \E p, q \in projects :
        /\ p # q
        /\ UpdateExhausted(p)
        /\ calls[p].pull = 4
        /\ fs[p].kind = "repo"
        /\ fs[p].origin = TokenUrl(p)
        /\ seen[q].kind = "absent"
        /\ fs[q].kind = "repo"

\* Every submitted project has produced its result.
AllProduced == \A p \in projects : pc[p] \in {"finished", "collected"}

\* C38: when every transport call returns or raises, sync_groups ends with
\* a summary.  Each project makes at most max_retries + 1 attempts; a
\* worker that holds a project reaches the end of it whatever the other
\* workers do, a backoff sleep holding only the thread that sleeps; and
\* once every submitted project has produced its result the collector
\* finishes and the summary is returned.
C38_Termination ==
    /\ <>(phase = "done" /\ summary # NoSummary)
    /\ [](\A p \in RetryProjects : attempt[p] <= config.max_retries + 1)
    /\ \A p \in RetryProjects :
         (pc[p] \in {"cloning", "updating"}) ~> (pc[p] \in {"finished", "collected"})
    /\ (phase = "pool" /\ AllProduced) ~> (phase = "done")

\* C38 witness: the run returned its summary after one project failed on
\* every attempt, sleeping between the attempts, and the other was cloned.
C38_Witness ==
    /\ phase = "done"
    /\ summary # NoSummary
    /\ \E p, q \in projects :
         /\ p # q
         /\ future[p].error_message.kind = "exhausted"
         /\ Len(calls[p].sleep) >= 1
         /\ future[q].status = CLONED

\* C39: the success rate of every returned summary lies between 0 and 100
\* and is 100 exactly when the summary counts no error and no ignored
\* project: an ignored project lowers the rate as a failure does, an
\* excluded one changes nothing (the rate is that of the same summary with
\* its excluded projects taken out).
C39_SuccessRateRange ==
    phase = "done" =>
        LET rate == success_rate(summary)
            without_excluded == [summary EXCEPT !.excluded = 0,
                                                !.total_projects = @ - summary.excluded]
        IN /\ rate.den > 0
           /\ rate.num >= 0
           /\ rate.num <= 100 * rate.den
           /\ (rate.num = 100 * rate.den)
                 <=> (summary.errors = 0 /\ summary.ignored = 0)
           /\ summary.ignored > 0 => rate.num < 100 * rate.den
           /\ FractionEq(rate, success_rate(without_excluded))

\* C39 witness: a summary with one excluded and one ignored project and no
\* error, whose rate is below 100.
C39_Witness ==
    /\ phase = "done"
    /\ summary.excluded = 1
    /\ summary.ignored = 1
    /\ summary.errors = 0
    /\ FractionEq(success_rate(summary), Fraction(0, 1))

\* The askpass scripts of p's clone that exist in the temporary directory.
AskpassScripts(p) == calls[p].askpass - calls[p].unlink

\* _clone_with_retry was entered for p in this run.
CloneEntered(p) == calls[p].mkdir > 0

====
